---- MODULE Spec2Model ----
(***************************************************************************)
(* Verification model of gizatt/skybox.github.io:                          *)
(*   - src/src/lib/tleCache.ts : fetchTextCached, the persistent text      *)
(*     cache with conditional revalidation (specification Spec);           *)
(*   - src/src/lib/goes.ts     : fetchLatestGoesFrames, resolveLatestImage,*)
(*     buildFrame and the helpers they call (specification FramesSpec).    *)
(*   - src/src/main.ts         : loadSatellites, the element-set button  *)
(*     and animate (specification AppSpec);                                *)
(*   - src/src/projectorMaterial.ts : the fragment shader.                 *)
(* ConcSpec runs fetchTextCached calls that overlap; PureSpec applies the   *)
(* pure helpers of goes.ts and the shader's functions to bounded inputs.   *)
(* Instants are whole clock units; the cache clock is Date.now().          *)
(***************************************************************************)
EXTENDS Integers, Sequences, FiniteSets, TLC

VARIABLES
    store,      \* IndexedDB (idb-keyval): key(url) -> CachedText or NoRecord
    clock,      \* Date.now()
    calls,      \* executions of fetchTextCached, one per call slot
    started,    \* number of fetchTextCached calls made so far
    newest,     \* per URL, the body most recently retrieved (2xx, when
                \* res.text() resolved) or validated (304) from the network
    variant,    \* which fetchLatestGoesFrames of goes.ts runs: "dir" is
                \* lines 1-256 (directory listing), "cand" is lines 258-454
                \* (candidate list)
    fnow,       \* the instant `new Date()` yields
    useRealTle, \* USE_REAL_TLE
    flf,        \* the execution of fetchLatestGoesFrames
    img,        \* the two executions of resolveLatestImage
    tle,        \* what fetchGoesTLEsBySatId returned
    probe,      \* one application of a pure function: name, argument, result
    satellites,             \* main.ts line 27: the SatelliteProjector list
    satelliteImageWidgets,  \* main.ts line 28: the inset image widgets
    loads,      \* the executions of loadSatellites, in the order they began
    uniforms,   \* the uniforms of projectorMaterial (main.ts lines 87-97)
    rendered    \* the last frame drawn: the sources the shader read

cacheVars == <<store, clock, calls, started, newest>>

frameVars == <<variant, fnow, useRealTle, flf, img, tle>>

uiVars == <<satellites, satelliteImageWidgets, loads, uniforms, rendered>>

vars == <<store, clock, calls, started, newest, variant, fnow, useRealTle,
          flf, img, tle, probe, satellites, satelliteImageWidgets, loads,
          uniforms, rendered>>

----------------------------------------------------------------------------
(* Bounds and small input domains                                          *)

MaxClock == 3
MaxCalls == 3
MaxTicks == 1
MaxLoads == 3

CallIds == {"c1", "c2"}
SlotBefore(d, c) == d = "c1" /\ c = "c2"
Urls == {"u1"}
Bodies == {"b1", "b2"}
NULL == "<null>"
EmptyBody == ""
ETags == {NULL, "", "e1", "e2"}
LastMods == {NULL, "m1"}
Statuses == {200, 304, 404, 500}
TtlChoices == {1, 2}

----------------------------------------------------------------------------
(* tleCache.ts                                                             *)

NoRecord == [none |-> TRUE]
NoResponse == [none |-> TRUE]
NoResult == [none |-> TRUE]
NoHeaders == [ifNoneMatch |-> NULL, ifModifiedSince |-> NULL]

\* key(url): the store is indexed by the URL itself; the "tle:" prefix is
\* an injective renaming.
key(url) == url

\* Response.ok
ResOk(status) == status >= 200 /\ status <= 299

\* JavaScript truthiness of a string-or-null validator
Truthy(v) == v # NULL /\ v # ""

\* a ?? b
Coalesce(a, b) == IF a # NULL THEN a ELSE b

\* the age comparison turned round
IsFresh_Inverted(cached, now) ==
    /\ cached # NoRecord
    /\ (now - cached.fetchedAt) > cached.ttlMs

\* line 28: cached && (now - cached.fetchedAt) < cached.ttlMs
IsFresh(cached, now) ==
    /\ cached # NoRecord
    /\ (now - cached.fetchedAt) < cached.ttlMs

\* the validators sent under each other's header name
CondHeaders_Swapped(cached) ==
    [ifNoneMatch     |-> IF cached # NoRecord /\ Truthy(cached.lastModified)
                         THEN cached.lastModified ELSE NULL,
     ifModifiedSince |-> IF cached # NoRecord /\ Truthy(cached.etag)
                         THEN cached.etag ELSE NULL]

\* line 53: the cache mode of every request
RequestCache == "no-cache"

\* lines 44-46: conditional headers from the stored validators
CondHeaders(cached) ==
    [ifNoneMatch     |-> IF cached # NoRecord /\ Truthy(cached.etag)
                         THEN cached.etag ELSE NULL,
     ifModifiedSince |-> IF cached # NoRecord /\ Truthy(cached.lastModified)
                         THEN cached.lastModified ELSE NULL]

\* the 304 path taking the body from the (empty) 304 response
Updated304_BodyFromResponse(cached, res, now, ttlMs) ==
    [cached EXCEPT
        !.body = res.body,
        !.etag = Coalesce(res.etag, Coalesce(cached.etag, NULL)),
        !.lastModified = Coalesce(res.lastModified,
                                  Coalesce(cached.lastModified, NULL)),
        !.fetchedAt = now,
        !.ttlMs = ttlMs]

\* lines 60-66: the record written after a 304
Updated304(cached, res, now, ttlMs) ==
    [cached EXCEPT
        !.etag = Coalesce(res.etag, Coalesce(cached.etag, NULL)),
        !.lastModified = Coalesce(res.lastModified,
                                  Coalesce(cached.lastModified, NULL)),
        !.fetchedAt = now,
        !.ttlMs = ttlMs]

\* the record built before the body was read
Record200_EmptyBody(url, body, res, now, ttlMs) ==
    [url |-> url, body |-> EmptyBody, etag |-> res.etag,
     lastModified |-> res.lastModified, fetchedAt |-> now, ttlMs |-> ttlMs]

\* the two validators stored under each other's name
Record200_SwappedValidators(url, body, res, now, ttlMs) ==
    [url |-> url, body |-> body, etag |-> res.lastModified,
     lastModified |-> res.etag, fetchedAt |-> now, ttlMs |-> ttlMs]

\* lines 83-90: the record written after a 2xx
Record200(url, body, res, now, ttlMs) ==
    [url |-> url, body |-> body, etag |-> res.etag,
     lastModified |-> res.lastModified, fetchedAt |-> now, ttlMs |-> ttlMs]

\* the error message without the URL
HttpErrorMessage_NoUrl(status, url) == <<"HTTP", ToString(status)>>

\* line 77: `HTTP ${res.status} fetching ${url}` as its sequence of tokens
HttpErrorMessage(status, url) == <<"HTTP", ToString(status), "fetching", url>>

FetchRejectedMessage == <<"fetch", "rejected">>

Returned(body) == [kind |-> "return", body |-> body, msg |-> <<>>]
Thrown(msg) == [kind |-> "throw", body |-> EmptyBody, msg |-> msg]

IdleCall ==
    [pc |-> "idle", url |-> "u1", ttlMs |-> 1, revalidate |-> FALSE,
     now |-> 0, cached |-> NoRecord, headers |-> NoHeaders,
     reqCache |-> NULL,
     res |-> NoResponse, pending |-> NoRecord, ret |-> NoResult,
     branch |-> "none", net |-> 0, bodyRead |-> FALSE, wrote |-> FALSE,
     after |-> "none"]  \* how the execution before it in the slot ended

\* lines 20-27: the call is entered, now = Date.now(), idbGet is awaited.
\* Date.now() is read here and nowhere else: the clock moves to the value
\* read.  A new execution takes the first free slot.
FtcStart(c, url, ttlMs, revalidate, now) ==
    /\ calls[c].pc \in {"idle", "done"}
    /\ \A d \in CallIds : SlotBefore(d, c) => calls[d].pc \notin {"idle", "done"}
    /\ started < MaxCalls
    /\ now >= clock
    /\ started' = started + 1
    /\ clock' = now
    /\ calls' = [calls EXCEPT ![c] =
                    [IdleCall EXCEPT !.pc = "get", !.url = url,
                                     !.ttlMs = ttlMs,
                                     !.revalidate = revalidate,
                                     !.now = now,
                                     !.after = calls[c].branch]]
    /\ UNCHANGED <<store, newest>>

\* the age of the record held against the ttl of the call
FtcIdbGet_CallerTtl(c) ==
    /\ calls[c].pc = "get"
    /\ LET cl == calls[c]
           cached == store[key(cl.url)]
       IN IF /\ cached # NoRecord
             /\ (cl.now - cached.fetchedAt) < cl.ttlMs
             /\ ~cl.revalidate
          THEN calls' = [calls EXCEPT ![c] =
                   [cl EXCEPT !.pc = "done", !.cached = cached,
                              !.branch = "hit",
                              !.ret = Returned(cached.body)]]
          ELSE calls' = [calls EXCEPT ![c] =
                   [cl EXCEPT !.pc = "fetch", !.cached = cached,
                              !.headers = CondHeaders(cached),
                              !.reqCache = RequestCache,
                              !.net = cl.net + 1]]
    /\ UNCHANGED <<store, clock, started, newest>>

\* lines 27-54: idbGet resolves; fresh hit returns, otherwise fetchFn is
\* called with the conditional headers and awaited
FtcIdbGet(c) ==
    /\ calls[c].pc = "get"
    /\ LET cl == calls[c]
           cached == store[key(cl.url)]
       IN IF IsFresh(cached, cl.now) /\ ~cl.revalidate
          THEN calls' = [calls EXCEPT ![c] =
                   [cl EXCEPT !.pc = "done", !.cached = cached,
                              !.branch = "hit",
                              !.ret = Returned(cached.body)]]
          ELSE calls' = [calls EXCEPT ![c] =
                   [cl EXCEPT !.pc = "fetch", !.cached = cached,
                              !.headers = CondHeaders(cached),
                              !.reqCache = RequestCache,
                              !.net = cl.net + 1]]
    /\ UNCHANGED <<store, clock, started, newest>>

\* line 49: fetchFn rejects; nothing catches it, the call rejects
FtcFetchReject(c) ==
    /\ calls[c].pc = "fetch"
    /\ calls' = [calls EXCEPT ![c] =
            [calls[c] EXCEPT !.pc = "done", !.branch = "reject",
                             !.ret = Thrown(FetchRejectedMessage)]]
    /\ UNCHANGED <<store, clock, started, newest>>

\* a failed response always throwing, stored record or not
ResponseBranch_NoStale(cached, status) ==
    IF status = 304 /\ cached # NoRecord THEN "304"
    ELSE IF ~ResOk(status) THEN "error"
         ELSE "200"

\* a failed response taken for a revalidation of the stored record
ResponseBranch_StaleRevalidates(cached, status) ==
    IF (status = 304 \/ ~ResOk(status)) /\ cached # NoRecord THEN "304"
    ELSE IF ~ResOk(status) THEN "error"
         ELSE "200"

\* lines 56, 71-78: which way the call goes once the response is in
ResponseBranch(cached, status) ==
    IF status = 304 /\ cached # NoRecord THEN "304"
    ELSE IF ~ResOk(status)
         THEN IF cached # NoRecord THEN "stale" ELSE "error"
         ELSE "200"

\* lines 49-80: fetchFn resolves with a response
FtcFetchResponse(c, status, etag, lastModified, body) ==
    /\ calls[c].pc = "fetch"
    /\ LET cl == calls[c]
           res == [status |-> status, etag |-> etag,
                   lastModified |-> lastModified, body |-> body]
           branch == ResponseBranch(cl.cached, status)
       IN /\ CASE branch = "304" ->
                 calls' = [calls EXCEPT ![c] =
                   [cl EXCEPT !.pc = "set", !.res = res, !.branch = branch,
                              !.pending = Updated304(cl.cached, res,
                                                     cl.now, cl.ttlMs),
                              !.ret = Returned(cl.cached.body)]]
            [] branch = "stale" ->
                 calls' = [calls EXCEPT ![c] =
                   [cl EXCEPT !.pc = "done", !.res = res, !.branch = branch,
                              !.ret = Returned(cl.cached.body)]]
            [] branch = "error" ->
                 calls' = [calls EXCEPT ![c] =
                   [cl EXCEPT !.pc = "done", !.res = res, !.branch = branch,
                              !.ret = Thrown(HttpErrorMessage(status,
                                                              cl.url))]]
            [] OTHER ->
                 calls' = [calls EXCEPT ![c] =
                   [cl EXCEPT !.pc = "text", !.res = res, !.branch = branch]]
          /\ newest' = IF branch = "304"
                       THEN [newest EXCEPT ![cl.url] = cl.cached.body]
                       ELSE newest
    /\ UNCHANGED <<store, clock, started>>

\* lines 80-91: res.text() resolves; the new record is built, idbSet awaited
FtcText(c) ==
    /\ calls[c].pc = "text"
    /\ LET cl == calls[c]
       IN calls' = [calls EXCEPT ![c] =
              [cl EXCEPT !.pc = "set", !.bodyRead = TRUE,
                         !.pending = Record200(cl.url, cl.res.body, cl.res,
                                               cl.now, cl.ttlMs),
                         !.ret = Returned(cl.res.body)]]
          /\ newest' = [newest EXCEPT ![cl.url] = cl.res.body]
    /\ UNCHANGED <<store, clock, started>>

\* lines 67-68 and 91-92: idbSet commits the record, the call returns
FtcIdbSet(c) ==
    /\ calls[c].pc = "set"
    /\ store' = [store EXCEPT ![key(calls[c].url)] = calls[c].pending]
    /\ calls' = [calls EXCEPT ![c] =
            [calls[c] EXCEPT !.pc = "done", !.wrote = TRUE]]
    /\ UNCHANGED <<clock, started, newest>>

----------------------------------------------------------------------------
(* goes.ts: dates.  An instant is a whole number of seconds since the      *)
(* epoch (every instant built here is a multiple of 1000 ms); a Date is a  *)
(* record, NoDate is null and InvalidDate is a Date whose time is NaN.     *)

NoDate == [none |-> TRUE]
InvalidDate == [valid |-> FALSE, t |-> 0]
DateOf(t) == [valid |-> TRUE, t |-> t]

\* x instanceof Date && !isNaN(x.getTime())
IsValidDate(x) == x # NoDate /\ x.valid

\* ECMAScript MakeDay for a proleptic Gregorian date: days since the epoch
DaysFromCivil(y, m, d) ==
    LET yy == IF m <= 2 THEN y - 1 ELSE y
        era == yy \div 400
        yoe == yy - era * 400
        mp == (m + 9) % 12
        doy == (153 * mp + 2) \div 5 + d - 1
        doe == yoe * 365 + yoe \div 4 - yoe \div 100 + doy
    IN era * 146097 + doe - 719468

\* getUTCFullYear / getUTCMonth + 1 / getUTCDate of a day number
CivilFromDays(days) ==
    LET z == days + 719468
        era == z \div 146097
        doe == z - era * 146097
        yoe == (doe - doe \div 1460 + doe \div 36524 - doe \div 146096)
                   \div 365
        doy == doe - (365 * yoe + yoe \div 4 - yoe \div 100)
        mp == (5 * doy + 2) \div 153
        d == doy - (153 * mp + 2) \div 5 + 1
        m == IF mp < 10 THEN mp + 3 ELSE mp - 9
        y == yoe + era * 400 + (IF m <= 2 THEN 1 ELSE 0)
    IN [y |-> y, m |-> m, d |-> d]

\* Date.UTC(year, monthIndex, day, hours, minutes, seconds) in seconds:
\* years 0..99 mean 1900..1999, month and day overflow carry
DateUTC(year, monthIndex, day, hh, mm, ss) ==
    LET y0 == IF year >= 0 /\ year <= 99 THEN 1900 + year ELSE year
        y == y0 + monthIndex \div 12
        m == (monthIndex % 12) + 1
    IN (DaysFromCivil(y, m, 1) + day - 1) * 86400
           + hh * 3600 + mm * 60 + ss

\* the day of the year added whole, without the "- 1"
dateFromDayOfYearUTC_OffByOne(year, doy) ==
    LET jan1 == DateUTC(year, 0, 1, 0, 0, 0)
        dt == jan1 + doy * 24 * 3600
    IN CivilFromDays(dt \div 86400)

\* lines 243-247
dateFromDayOfYearUTC(year, doy) ==
    LET jan1 == DateUTC(year, 0, 1, 0, 0, 0)
        dt == jan1 + (doy - 1) * 24 * 3600
    IN CivilFromDays(dt \div 86400)

\* +s for a string of decimal digits (a sequence of digits here)
RECURSIVE DigitsToNumber(_)
DigitsToNumber(ds) ==
    IF Len(ds) = 0 THEN 0
    ELSE 10 * DigitsToNumber(SubSeq(ds, 1, Len(ds) - 1)) + ds[Len(ds)]

\* String.prototype.slice(from, to) with 0-based, end-exclusive indices
Slice(ds, from, to) == SubSeq(ds, from + 1, to)

\* lines 147-156: yyyydddhhmm
parseGoesNFilenameTimestamp(stamp) ==
    IF Len(stamp) # 11 THEN NoDate
    ELSE LET year == DigitsToNumber(Slice(stamp, 0, 4))
             doy == DigitsToNumber(Slice(stamp, 4, 7))
             hh == DigitsToNumber(Slice(stamp, 7, 9))
             mm == DigitsToNumber(Slice(stamp, 9, 11))
             ymd == dateFromDayOfYearUTC(year, doy)
         IN DateOf(DateUTC(ymd.y, ymd.m - 1, ymd.d, hh, mm, 0))

----------------------------------------------------------------------------
(* goes.ts: URLs and file names.  A string that the regular expressions of *)
(* goes.ts inspect is a sequence of tokens: a maximal run of decimal       *)
(* digits, one of the characters / - _ . ?, a run of letters, or the       *)
(* scheme and host of a URL (no digits; it contains slashes).              *)

Dig(ds) == [dig |-> ds]
Chr(c) == [chr |-> c]
Txt(t) == [txt |-> t]
Host(h) == [host |-> h]

IsDig(tok) == "dig" \in DOMAIN tok
IsSep(tok) == tok = Chr("-") \/ tok = Chr("_")
HasSlash(tok) == tok = Chr("/") \/ "host" \in DOMAIN tok

\* line 39
GOES_CDN_BASE == Host("https://cdn.star.nesdis.noaa.gov")

\* "GOES19" / "GOES18"
GoesName(sat) ==
    IF sat = "G19" THEN <<Txt("GOES"), Dig(<<1, 9>>)>>
    ELSE <<Txt("GOES"), Dig(<<1, 8>>)>>

\* `${GOES_CDN_BASE}/${satId}/ABI/FD/GEOCOLOR/` (lines 42-49, 123)
GeocolorDir(sat) ==
    <<GOES_CDN_BASE, Chr("/")>> \o GoesName(sat)
        \o <<Chr("/"), Txt("ABI"), Chr("/"), Txt("FD"), Chr("/"),
             Txt("GEOCOLOR"), Chr("/")>>

SizeTokens(n) ==
    IF n = 1808 THEN <<Dig(<<1, 8, 0, 8>>), Txt("x"), Dig(<<1, 8, 0, 8>>)>>
    ELSE IF n = 1080
         THEN <<Dig(<<1, 0, 8, 0>>), Txt("x"), Dig(<<1, 0, 8, 0>>)>>
         ELSE <<Dig(<<6, 7, 8>>), Txt("x"), Dig(<<6, 7, 8>>)>>

\* lines 40-51 (and 297-308)
IMAGE_CANDIDATES(sat) ==
    << GeocolorDir(sat) \o SizeTokens(1808) \o <<Chr("."), Txt("jpg")>>,
       GeocolorDir(sat) \o SizeTokens(1080) \o <<Chr("."), Txt("jpg")>>,
       GeocolorDir(sat) \o <<Txt("latest"), Chr("."), Txt("jpg")>> >>

\* \.(?:jpg|png|jpeg) with the i flag, at token j
IsExtAt(u, j) ==
    /\ j >= 1 /\ j + 1 <= Len(u)
    /\ u[j] = Chr(".")
    /\ u[j + 1] \in {Txt("jpg"), Txt("png"), Txt("jpeg"),
                     Txt("JPG"), Txt("PNG"), Txt("JPEG")}

\* [^\/]*\.(?:jpg|png|jpeg) from token k on
TailAnywhere(u, k) ==
    \E j \in k..Len(u) :
        IsExtAt(u, j) /\ \A m \in k..(j - 1) : ~HasSlash(u[m])

\* \.(?:jpg|png|jpeg)(\?.*)?$ from token k on
TailAtEnd(u, k) ==
    /\ IsExtAt(u, k)
    /\ (Len(u) = k + 1 \/ u[k + 2] = Chr("?"))

\* The matches of (\d{8})[-_]?(\d{4})(\d{2})? followed by the tail: i is
\* the token and o the offset in its digits where the match starts.
\* atEnd = TRUE is the first pattern of line 216 (the digits are followed
\* at once by the extension), atEnd = FALSE the pattern of line 217.
StampMatches(u, atEnd) ==
    LET InRun(i, o) ==
            LET ds == u[i].dig
                rest == Len(ds) - o - 12
            IN /\ rest >= 0
               /\ IF atEnd THEN rest \in {0, 2} /\ TailAtEnd(u, i + 1)
                  ELSE TailAnywhere(u, i + 1)
        InRunMatch(i, o) ==
            LET ds == u[i].dig
            IN [i |-> i, o |-> o,
                ymd |-> SubSeq(ds, o + 1, o + 8),
                hm |-> SubSeq(ds, o + 9, o + 12),
                s |-> IF Len(ds) - o - 12 >= 2
                      THEN SubSeq(ds, o + 13, o + 14) ELSE <<>>]
        Split(i, o) ==
            /\ Len(u[i].dig) - o = 8
            /\ i + 2 <= Len(u)
            /\ IsSep(u[i + 1])
            /\ IsDig(u[i + 2])
            /\ Len(u[i + 2].dig) >= 4
            /\ IF atEnd THEN Len(u[i + 2].dig) \in {4, 6}
                             /\ TailAtEnd(u, i + 3)
               ELSE TailAnywhere(u, i + 3)
        SplitMatch(i, o) ==
            LET ds == u[i].dig
                ts == u[i + 2].dig
            IN [i |-> i, o |-> o,
                ymd |-> SubSeq(ds, o + 1, o + 8),
                hm |-> SubSeq(ts, 1, 4),
                s |-> IF Len(ts) >= 6 THEN SubSeq(ts, 5, 6) ELSE <<>>]
        Starts == UNION {{<<i, o>> : o \in 0..(Len(u[i].dig) - 8)} :
                            i \in {k \in DOMAIN u : IsDig(u[k])}}
    IN {InRunMatch(io[1], io[2]) : io \in {x \in Starts : InRun(x[1], x[2])}}
       \cup
       {SplitMatch(io[1], io[2]) : io \in {x \in Starts : Split(x[1], x[2])}}

\* String.prototype.match without the g flag: the leftmost match
Leftmost(ms) ==
    CHOOSE m \in ms :
        \A n \in ms : m.i < n.i \/ (m.i = n.i /\ m.o <= n.o)

\* The matches of \/(\d{4})\/(\d{3})\/.*?[-_](\d{2})(\d{2})(\d{2})?\.ext
\* (line 228): i is the token of the first slash, o the token of the
\* separator before the time.
DoyMatches(u) ==
    LET Ok(i, j) ==
            /\ i + 4 <= Len(u)
            /\ u[i] = Chr("/") /\ IsDig(u[i + 1]) /\ Len(u[i + 1].dig) = 4
            /\ u[i + 2] = Chr("/") /\ IsDig(u[i + 3])
            /\ Len(u[i + 3].dig) = 3
            /\ u[i + 4] = Chr("/")
            /\ j >= i + 5 /\ j + 1 <= Len(u)
            /\ IsSep(u[j]) /\ IsDig(u[j + 1])
            /\ Len(u[j + 1].dig) \in {4, 6}
            /\ IsExtAt(u, j + 2)
    IN {[i |-> ij[1], o |-> ij[2],
         y |-> u[ij[1] + 1].dig, doy |-> u[ij[1] + 3].dig,
         hm |-> SubSeq(u[ij[2] + 1].dig, 1, 4),
         s |-> IF Len(u[ij[2] + 1].dig) = 6
               THEN SubSeq(u[ij[2] + 1].dig, 5, 6) ELSE <<>>]
            : ij \in {x \in {k \in DOMAIN u : u[k] = Chr("/")}
                              \X {k \in DOMAIN u : IsSep(u[k])} :
                                 Ok(x[1], x[2])}}

\* the month number passed to Date.UTC as it was read
StampDate_MonthNotShifted(m) ==
    DateOf(DateUTC(DigitsToNumber(SubSeq(m.ymd, 1, 4)),
                   DigitsToNumber(SubSeq(m.ymd, 5, 6)),
                   DigitsToNumber(SubSeq(m.ymd, 7, 8)),
                   DigitsToNumber(SubSeq(m.hm, 1, 2)),
                   DigitsToNumber(SubSeq(m.hm, 3, 4)),
                   DigitsToNumber(m.s)))

\* lines 219-221 (and 225-226): the instant of a match of the first two
\* shapes; +"" is 0, as is the missing seconds group
StampDate(m) ==
    DateOf(DateUTC(DigitsToNumber(SubSeq(m.ymd, 1, 4)),
                   DigitsToNumber(SubSeq(m.ymd, 5, 6)) - 1,
                   DigitsToNumber(SubSeq(m.ymd, 7, 8)),
                   DigitsToNumber(SubSeq(m.hm, 1, 2)),
                   DigitsToNumber(SubSeq(m.hm, 3, 4)),
                   DigitsToNumber(m.s)))

\* lines 230-232: the instant of a match of the day-of-year shape
DoyDate(m) ==
    LET ymd == dateFromDayOfYearUTC(DigitsToNumber(m.y),
                                    DigitsToNumber(m.doy))
    IN DateOf(DateUTC(ymd.y, ymd.m - 1, ymd.d,
                      DigitsToNumber(SubSeq(m.hm, 1, 2)),
                      DigitsToNumber(SubSeq(m.hm, 3, 4)),
                      DigitsToNumber(m.s)))

\* lines 215-235 (and 413-433).  The pattern of line 223 matches exactly
\* the strings the second pattern of line 217 matches, with the same
\* groups.
parseTimestampFromUrl(u) ==
    LET m1a == StampMatches(u, TRUE)
        m1b == StampMatches(u, FALSE)
        m1 == IF m1a # {} THEN m1a ELSE m1b
        m2 == m1b
        m3 == DoyMatches(u)
    IN IF m1 # {} THEN StampDate(Leftmost(m1))
       ELSE IF m2 # {} THEN StampDate(Leftmost(m2))
       ELSE IF m3 # {} THEN DoyDate(Leftmost(m3))
       ELSE NoDate

\* Date.parse on the Last-Modified values of the model: the time value, or
\* NaN for a string that is no date
HttpDateGood == "Tue, 12 Aug 2025 17:10:00 GMT"
HttpDateBad == "yesterday"
DateParse(v) ==
    IF v = HttpDateGood THEN DateOf(DateUTC(2025, 7, 12, 17, 10, 0))
    ELSE InvalidDate

\* lines 237-241 (and 435-439)
parseHttpDate(v) ==
    IF v = NULL \/ v = "" THEN NoDate
    ELSE IF DateParse(v).valid THEN DateParse(v) ELSE NoDate

\* a.localeCompare(b) < 0 for strings of digits
RECURSIVE LexLess(_, _)
LexLess(a, b) ==
    IF Len(b) = 0 THEN FALSE
    ELSE IF Len(a) = 0 THEN TRUE
    ELSE IF a[1] # b[1] THEN a[1] < b[1]
    ELSE LexLess(Tail(a), Tail(b))

\* `${stamp}_${satId}-ABI-FD-GEOCOLOR-${n}x${n}.jpg`
GoesNFilename(stamp, sat, n) ==
    <<Dig(stamp), Chr("_")>> \o GoesName(sat)
        \o <<Chr("-"), Txt("ABI"), Chr("-"), Txt("FD"), Chr("-"),
             Txt("GEOCOLOR"), Chr("-")>>
        \o SizeTokens(n) \o <<Chr("."), Txt("jpg")>>

\* lines 125, 131: html.matchAll(regex) on a listing given as the sequence
\* of the file names it shows; the stamp is group 1
ListingMatches(html, sat) ==
    SelectSeq(html, LAMBDA f : /\ Len(f.stamp) >= 11
                               /\ f.sat = sat
                               /\ f.size = 1808)

\* the first match of the listing taken, the sort left out
LatestMatch_Unsorted(matches) == matches[1]

\* lines 133-134: matches.sort((a, b) => b[1].localeCompare(a[1]))[0]
LatestMatch(matches) ==
    LET best == {k \in DOMAIN matches :
                    \A j \in DOMAIN matches :
                        ~LexLess(matches[k].stamp, matches[j].stamp)}
    IN matches[CHOOSE k \in best : \A j \in best : k <= j]

----------------------------------------------------------------------------
(* goes.ts: orbit propagation.  satellite.js is outside the repository;    *)
(* its four entry points are modelled as the repository's own test double  *)
(* (src/unnamed/part_001, lines 8-20) defines them, with the sidereal      *)
(* angle counted in quarter turns so that the rotation is exact.           *)

Sats == {"G19", "G18"}

\* line 38 and line 295, in hundredths of a degree
FULL_DISK_FOV_DEG(v) == IF v = "dir" THEN 1733 ELSE 1776

\* lines 178-185: the stub element sets of the directory-listing version
StubTleDir ==
    [G18 |-> [line1 |-> "1 51850U 22021A   25225.49697635  .00000098  00000+0  00000+0 0  9996",
              line2 |-> "2 51850   0.0070 282.4274 0000607 300.8675 140.7832  1.00271626  3507"],
     G19 |-> [line1 |-> "1 60133U 24119A   25225.52405752 -.00000247  00000+0  00000+0 0  9998",
              line2 |-> "2 60133   0.0150  90.0040 0000708 157.4073 188.2598  1.00269356  3877"]]

\* lines 378-385: the stub element sets of the candidate-list version
StubTleCand ==
    [G18 |-> [line1 |-> "1 49857U 22057A   24225.50000000  .00000000  00000-0  00000-0 0  9990",
              line2 |-> "2 49857   0.0170  0.0000 0001000  90.0000 270.0000  1.00270000    01"],
     G19 |-> [line1 |-> "1 56370U 23067A   24225.50000000  .00000000  00000-0  00000-0 0  9990",
              line2 |-> "2 56370   0.0170  0.0000 0001000 180.0000   0.0000  1.00270000    01"]]

NoTle == [none |-> TRUE]
NoPosition == [none |-> TRUE]

\* element sets a fetched text can carry: two that propagate and one for
\* which SGP4 reports no position
RealTle19 == [line1 |-> "1 57166U 23111A   25225.00000000  .00000000  00000-0  00000-0 0  9991",
              line2 |-> "2 57166   0.1000  50.0000 0001000   0.0000  90.0000  1.00270000    05"]
RealTle18 == [line1 |-> "1 53911U 22037A   25225.00000000  .00000000  00000-0  00000-0 0  9996",
              line2 |-> "2 53911   0.1000 230.0000 0001000   0.0000 270.0000  1.00270000    09"]
DecayedTle == [line1 |-> "1 00000U 00000A   00000.00000000  .00000000  00000-0  00000-0 0  0000",
               line2 |-> "2 00000   0.0000   0.0000 0000000   0.0000   0.0000  1.00270000    00"]

\* satellite.twoline2satrec
twoline2satrec(line1, line2) == [line1 |-> line1, line2 |-> line2]

\* an element set of an inclined orbit, off the X axis and off the equator
InclinedTle == [line1 |-> "1 41866U 16071A   25225.00000000  .00000000  00000-0  00000-0 0  9993",
                line2 |-> "2 41866   5.0000 130.0000 0001000   0.0000   0.0000  1.00270000    07"]

\* satellite.propagate: the ECI position in km, or no position
propagate(satrec, at) ==
    IF satrec = DecayedTle \/ ~IsValidDate(at) THEN [position |-> NoPosition]
    ELSE IF satrec = InclinedTle
    THEN [position |-> [x |-> -27102, y |-> 32299, z |-> 74]]
    ELSE [position |-> [x |-> 42164, y |-> 0, z |-> 0]]

\* seconds in a quarter of a sidereal day
QuarterSiderealDay == 21541

\* satellite.gstime, in quarter turns
gstime(at) == (at.t \div QuarterSiderealDay) % 4

\* satellite.eciToEcf: rotation about Z by g quarter turns
eciToEcf(eci, g) ==
    LET c == CASE g = 0 -> 1 [] g = 1 -> 0 [] g = 2 -> -1 [] OTHER -> 0
        sn == CASE g = 0 -> 0 [] g = 1 -> 1 [] g = 2 -> 0 [] OTHER -> -1
    IN [x |-> eci.x * c - eci.y * sn, y |-> eci.x * sn + eci.y * c,
        z |-> eci.z]

\* the rotated position handed back in kilometres
propagateToEcefMeters_Kilometres(tleRec, at) ==
    LET satrec == twoline2satrec(tleRec.line1, tleRec.line2)
        position == propagate(satrec, at).position
    IN IF position = NoPosition
       THEN [threw |-> TRUE, msg |-> "SGP4 returned no position"]
       ELSE LET ecf_km == eciToEcf(position, gstime(at))
            IN [threw |-> FALSE,
                value |-> [x |-> ecf_km.x, y |-> ecf_km.y, z |-> ecf_km.z]]

\* a missing position taken for the origin
propagateToEcefMeters_OriginOnNoPosition(tleRec, at) ==
    LET satrec == twoline2satrec(tleRec.line1, tleRec.line2)
        position == propagate(satrec, at).position
        usable == IF position = NoPosition THEN [x |-> 0, y |-> 0, z |-> 0]
                  ELSE position
        ecf_km == eciToEcf(usable, gstime(at))
    IN [threw |-> FALSE,
        value |-> [x |-> ecf_km.x * 1000, y |-> ecf_km.y * 1000,
                   z |-> ecf_km.z * 1000]]

\* lines 249-256 (and 447-454): the result of the call, thrown or returned
propagateToEcefMeters(tleRec, at) ==
    LET satrec == twoline2satrec(tleRec.line1, tleRec.line2)
        position == propagate(satrec, at).position
    IN IF position = NoPosition
       THEN [threw |-> TRUE, msg |-> "SGP4 returned no position"]
       ELSE LET ecf_km == eciToEcf(position, gstime(at))
            IN [threw |-> FALSE,
                value |-> [x |-> ecf_km.x * 1000, y |-> ecf_km.y * 1000,
                           z |-> ecf_km.z * 1000]]

\* a || b on numbers
OrElse(a, b) == IF a # 0 THEN a ELSE b

\* the position taken at the clock instead of at the image's timestamp
buildFrame_PropagatesNow(sat, im, tleRec) ==
    LET ecef == propagateToEcefMeters(tleRec, DateOf(fnow))
        w == OrElse(im.image.naturalWidth, im.image.width)
        h == OrElse(im.image.naturalHeight, im.image.height)
    IN IF variant = "dir" /\ ~IsValidDate(im.timestamp)
       THEN [threw |-> TRUE, msg |-> "toISOString"]
       ELSE IF ecef.threw THEN [threw |-> TRUE, msg |-> ecef.msg]
       ELSE [threw |-> FALSE,
             value |-> [sat |-> sat, band |-> "GEOCOLOR",
                        imageUrl |-> im.url, image |-> im.image,
                        width |-> w, height |-> h,
                        aspect |-> [num |-> w, den |-> h],
                        timestamp |-> im.timestamp,
                        satEcef_m |-> ecef.value,
                        fovDeg |-> FULL_DISK_FOV_DEG(variant)]]

\* lines 80-111 (and 327-347): the frame, or the throw.  Line 85 calls
\* img.timestamp.toISOString(), which throws on null and on an invalid Date
buildFrame(sat, im, tleRec) ==
    LET ecef == propagateToEcefMeters(tleRec, im.timestamp)
        w == OrElse(im.image.naturalWidth, im.image.width)
        h == OrElse(im.image.naturalHeight, im.image.height)
    IN IF variant = "dir" /\ ~IsValidDate(im.timestamp)
       THEN [threw |-> TRUE, msg |-> "toISOString"]
       ELSE IF ecef.threw THEN [threw |-> TRUE, msg |-> ecef.msg]
       ELSE [threw |-> FALSE,
             value |-> [sat |-> sat, band |-> "GEOCOLOR",
                        imageUrl |-> im.url, image |-> im.image,
                        width |-> w, height |-> h,
                        aspect |-> [num |-> w, den |-> h],
                        timestamp |-> im.timestamp,
                        satEcef_m |-> ecef.value,
                        fovDeg |-> FULL_DISK_FOV_DEG(variant)]]

\* the resolved image handed over without the check
FrameInput_Unchecked(v, resolved, now) == resolved

\* lines 66-69 and 72-75: the image handed to buildFrame by the
\* directory-listing version; lines 322-323 hand it over unchanged
FrameInput(v, resolved, now) ==
    IF v = "dir"
    THEN [resolved EXCEPT !.timestamp =
              IF IsValidDate(resolved.timestamp) THEN resolved.timestamp
              ELSE DateOf(now)]
    ELSE resolved

----------------------------------------------------------------------------
(* goes.ts: element sets                                                   *)

NoSat == "none"

\* the name lines a text can carry, the same lines with blanks around
\* them, and blank lines
NameLines ==
    {"GOES 19", "GOES-19", "GOES19", "goes 19", "GOES U",
     "GOES 18", "GOES-18", "GOES18", "goes 18", "GOES T",
     "GOES 16", "GOES 190", "NOAA 19", "GOES-U", "XGOES 18"}

PaddedNameLines ==
    {"  GOES 19 ", "  GOES-19 ", "  GOES19 ", "  goes 19 ",
     "  GOES U ", "  GOES 18 ", "  GOES-18 ", "  GOES18 ",
     "  goes 18 ", "  GOES T ", "  GOES 16 ", "  GOES 190 ",
     "  NOAA 19 ", "  GOES-U ", "  XGOES 18 "}

BlankLines == {"", "   "}

ElementLines ==
    {t.line1 : t \in {RealTle19, RealTle18, InclinedTle, DecayedTle}}
    \cup {t.line2 : t \in {RealTle19, RealTle18, InclinedTle, DecayedTle}}

KnownLines == NameLines \cup PaddedNameLines \cup BlankLines \cup ElementLines

\* the characters of a line
Chars(line) ==
    CASE line = "GOES 19" ->
          <<"G", "O", "E", "S", " ", "1", "9">>
      [] line = "GOES-19" ->
          <<"G", "O", "E", "S", "-", "1", "9">>
      [] line = "GOES19" ->
          <<"G", "O", "E", "S", "1", "9">>
      [] line = "goes 19" ->
          <<"g", "o", "e", "s", " ", "1", "9">>
      [] line = "GOES U" ->
          <<"G", "O", "E", "S", " ", "U">>
      [] line = "GOES 18" ->
          <<"G", "O", "E", "S", " ", "1", "8">>
      [] line = "GOES-18" ->
          <<"G", "O", "E", "S", "-", "1", "8">>
      [] line = "GOES18" ->
          <<"G", "O", "E", "S", "1", "8">>
      [] line = "goes 18" ->
          <<"g", "o", "e", "s", " ", "1", "8">>
      [] line = "GOES T" ->
          <<"G", "O", "E", "S", " ", "T">>
      [] line = "GOES 16" ->
          <<"G", "O", "E", "S", " ", "1", "6">>
      [] line = "GOES 190" ->
          <<"G", "O", "E", "S", " ", "1", "9", "0">>
      [] line = "NOAA 19" ->
          <<"N", "O", "A", "A", " ", "1", "9">>
      [] line = "GOES-U" ->
          <<"G", "O", "E", "S", "-", "U">>
      [] line = "XGOES 18" ->
          <<"X", "G", "O", "E", "S", " ", "1", "8">>
      [] line = "  GOES 19 " ->
          <<" ", " ", "G", "O", "E", "S", " ", "1", "9", " ">>
      [] line = "  GOES-19 " ->
          <<" ", " ", "G", "O", "E", "S", "-", "1", "9", " ">>
      [] line = "  GOES19 " ->
          <<" ", " ", "G", "O", "E", "S", "1", "9", " ">>
      [] line = "  goes 19 " ->
          <<" ", " ", "g", "o", "e", "s", " ", "1", "9", " ">>
      [] line = "  GOES U " ->
          <<" ", " ", "G", "O", "E", "S", " ", "U", " ">>
      [] line = "  GOES 18 " ->
          <<" ", " ", "G", "O", "E", "S", " ", "1", "8", " ">>
      [] line = "  GOES-18 " ->
          <<" ", " ", "G", "O", "E", "S", "-", "1", "8", " ">>
      [] line = "  GOES18 " ->
          <<" ", " ", "G", "O", "E", "S", "1", "8", " ">>
      [] line = "  goes 18 " ->
          <<" ", " ", "g", "o", "e", "s", " ", "1", "8", " ">>
      [] line = "  GOES T " ->
          <<" ", " ", "G", "O", "E", "S", " ", "T", " ">>
      [] line = "  GOES 16 " ->
          <<" ", " ", "G", "O", "E", "S", " ", "1", "6", " ">>
      [] line = "  GOES 190 " ->
          <<" ", " ", "G", "O", "E", "S", " ", "1", "9", "0", " ">>
      [] line = "  NOAA 19 " ->
          <<" ", " ", "N", "O", "A", "A", " ", "1", "9", " ">>
      [] line = "  GOES-U " ->
          <<" ", " ", "G", "O", "E", "S", "-", "U", " ">>
      [] line = "  XGOES 18 " ->
          <<" ", " ", "X", "G", "O", "E", "S", " ", "1", "8", " ">>
      [] line = "" ->
          <<>>
      [] line = "   " ->
          <<" ", " ", " ">>
      [] line = RealTle19.line1 ->
          <<"1", " ", "5", "7", "1", "6", "6", "U", " ", "2", "3", "1",
          "1", "1", "A", " ", " ", " ", "2", "5", "2", "2", "5", ".", "0",
          "0", "0", "0", "0", "0", "0", "0", " ", " ", ".", "0", "0", "0",
          "0", "0", "0", "0", "0", " ", " ", "0", "0", "0", "0", "0", "-",
          "0", " ", " ", "0", "0", "0", "0", "0", "-", "0", " ", "0", " ",
          " ", "9", "9", "9", "1">>
      [] line = RealTle19.line2 ->
          <<"2", " ", "5", "7", "1", "6", "6", " ", " ", " ", "0", ".",
          "1", "0", "0", "0", " ", " ", "5", "0", ".", "0", "0", "0", "0",
          " ", "0", "0", "0", "1", "0", "0", "0", " ", " ", " ", "0", ".",
          "0", "0", "0", "0", " ", " ", "9", "0", ".", "0", "0", "0", "0",
          " ", " ", "1", ".", "0", "0", "2", "7", "0", "0", "0", "0", " ",
          " ", " ", " ", "0", "5">>
      [] line = RealTle18.line1 ->
          <<"1", " ", "5", "3", "9", "1", "1", "U", " ", "2", "2", "0",
          "3", "7", "A", " ", " ", " ", "2", "5", "2", "2", "5", ".", "0",
          "0", "0", "0", "0", "0", "0", "0", " ", " ", ".", "0", "0", "0",
          "0", "0", "0", "0", "0", " ", " ", "0", "0", "0", "0", "0", "-",
          "0", " ", " ", "0", "0", "0", "0", "0", "-", "0", " ", "0", " ",
          " ", "9", "9", "9", "6">>
      [] line = RealTle18.line2 ->
          <<"2", " ", "5", "3", "9", "1", "1", " ", " ", " ", "0", ".",
          "1", "0", "0", "0", " ", "2", "3", "0", ".", "0", "0", "0", "0",
          " ", "0", "0", "0", "1", "0", "0", "0", " ", " ", " ", "0", ".",
          "0", "0", "0", "0", " ", "2", "7", "0", ".", "0", "0", "0", "0",
          " ", " ", "1", ".", "0", "0", "2", "7", "0", "0", "0", "0", " ",
          " ", " ", " ", "0", "9">>
      [] line = InclinedTle.line1 ->
          <<"1", " ", "4", "1", "8", "6", "6", "U", " ", "1", "6", "0",
          "7", "1", "A", " ", " ", " ", "2", "5", "2", "2", "5", ".", "0",
          "0", "0", "0", "0", "0", "0", "0", " ", " ", ".", "0", "0", "0",
          "0", "0", "0", "0", "0", " ", " ", "0", "0", "0", "0", "0", "-",
          "0", " ", " ", "0", "0", "0", "0", "0", "-", "0", " ", "0", " ",
          " ", "9", "9", "9", "3">>
      [] line = InclinedTle.line2 ->
          <<"2", " ", "4", "1", "8", "6", "6", " ", " ", " ", "5", ".",
          "0", "0", "0", "0", " ", "1", "3", "0", ".", "0", "0", "0", "0",
          " ", "0", "0", "0", "1", "0", "0", "0", " ", " ", " ", "0", ".",
          "0", "0", "0", "0", " ", " ", " ", "0", ".", "0", "0", "0", "0",
          " ", " ", "1", ".", "0", "0", "2", "7", "0", "0", "0", "0", " ",
          " ", " ", " ", "0", "7">>
      [] line = DecayedTle.line1 ->
          <<"1", " ", "0", "0", "0", "0", "0", "U", " ", "0", "0", "0",
          "0", "0", "A", " ", " ", " ", "0", "0", "0", "0", "0", ".", "0",
          "0", "0", "0", "0", "0", "0", "0", " ", " ", ".", "0", "0", "0",
          "0", "0", "0", "0", "0", " ", " ", "0", "0", "0", "0", "0", "-",
          "0", " ", " ", "0", "0", "0", "0", "0", "-", "0", " ", "0", " ",
          " ", "0", "0", "0", "0">>
      [] line = DecayedTle.line2 ->
          <<"2", " ", "0", "0", "0", "0", "0", " ", " ", " ", "0", ".",
          "0", "0", "0", "0", " ", " ", " ", "0", ".", "0", "0", "0", "0",
          " ", "0", "0", "0", "0", "0", "0", "0", " ", " ", " ", "0", ".",
          "0", "0", "0", "0", " ", " ", " ", "0", ".", "0", "0", "0", "0",
          " ", " ", "1", ".", "0", "0", "2", "7", "0", "0", "0", "0", " ",
          " ", " ", " ", "0", "0">>

\* the line made of the characters cs
Str(cs) == CHOOSE line \in KnownLines : Chars(line) = cs

Whitespace == {" ", "\t", "\r"}

RECURSIVE TrimStart(_)
TrimStart(cs) ==
    IF cs # <<>> /\ Head(cs) \in Whitespace THEN TrimStart(Tail(cs)) ELSE cs

RECURSIVE TrimEnd(_)
TrimEnd(cs) ==
    IF cs # <<>> /\ cs[Len(cs)] \in Whitespace
    THEN TrimEnd(SubSeq(cs, 1, Len(cs) - 1)) ELSE cs

\* String.prototype.trim
trim(line) == Str(TrimEnd(TrimStart(Chars(line))))

UpperCase ==
    [a |-> "A", b |-> "B", c |-> "C", d |-> "D", e |-> "E", f |-> "F",
     g |-> "G", h |-> "H", i |-> "I", j |-> "J", k |-> "K", l |-> "L",
     m |-> "M", n |-> "N", o |-> "O", p |-> "P", q |-> "Q", r |-> "R",
     s |-> "S", t |-> "T", u |-> "U", v |-> "V", w |-> "W", x |-> "X",
     y |-> "Y", z |-> "Z"]

\* String.prototype.toUpperCase, on characters
toUpperCase(cs) ==
    [i \in 1..Len(cs) |->
        IF cs[i] \in DOMAIN UpperCase THEN UpperCase[cs[i]] ELSE cs[i]]

\* \w
IsWordChar(ch) ==
    \/ ch \in DOMAIN UpperCase
    \/ ch \in {UpperCase[c] : c \in DOMAIN UpperCase}
    \/ ch \in {"0", "1", "2", "3", "4", "5", "6", "7", "8", "9", "_"}

\* the characters lit stand in n from position i on
LiteralAt(n, i, lit) ==
    /\ i + Len(lit) - 1 <= Len(n)
    /\ \A j \in 1..Len(lit) : n[i + j - 1] = lit[j]

\* \b in front of the word character n[i], and behind it
BoundaryBefore(n, i) == i = 1 \/ ~IsWordChar(n[i - 1])
BoundaryBehind(n, i) == i = Len(n) \/ ~IsWordChar(n[i + 1])

\* /\bGOES[-\s]?NN\b/.test(n), NN the two digits given
TestGoesNumber(n, digits) ==
    \E i \in 1..Len(n) :
        /\ BoundaryBefore(n, i)
        /\ LiteralAt(n, i, <<"G", "O", "E", "S">>)
        /\ \E sep \in {0, 1} :
              /\ sep = 1 =>
                    /\ i + 4 <= Len(n)
                    /\ n[i + 4] \in {"-"} \cup Whitespace
              /\ LiteralAt(n, i + 4 + sep, digits)
              /\ BoundaryBehind(n, i + 5 + sep)

\* /\bGOES L\b/.test(n), L the letter given
TestGoesLetter(n, letter) ==
    \E i \in 1..Len(n) :
        /\ BoundaryBefore(n, i)
        /\ LiteralAt(n, i, <<"G", "O", "E", "S", " ", letter>>)
        /\ BoundaryBehind(n, i + 5)

\* lines 207-212 (and 405-410)
nameToSatId(name) ==
    LET n == toUpperCase(Chars(name))
    IN IF TestGoesNumber(n, <<"1", "9">>) \/ TestGoesLetter(n, "U")
       THEN "G19"
       ELSE IF TestGoesNumber(n, <<"1", "8">>) \/ TestGoesLetter(n, "T")
       THEN "G18"
       ELSE NoSat

\* line 195, after the split at the line breaks: every line trimmed, the
\* empty ones dropped
CleanLines(rawLines) ==
    LET trimmed == [i \in 1..Len(rawLines) |-> trim(rawLines[i])]
    IN SelectSeq(trimmed, LAMBDA line : line # "")

\* an element set of a later group replacing the one already taken
RECURSIVE TleLoop_LastWins(_, _, _)
TleLoop_LastWins(lines, i, out) ==
    IF ~(i < Len(lines) - 2) THEN out
    ELSE LET satId == nameToSatId(lines[i + 1])
         IN IF satId = NoSat
            THEN TleLoop_LastWins(lines, i + 3, out)
            ELSE TleLoop_LastWins(lines, i + 3,
                                  [out EXCEPT ![satId] =
                                      [line1 |-> lines[i + 2],
                                       line2 |-> lines[i + 3]]])

\* lines 196-202 (and 395-401): lines is the text split, trimmed and
\* stripped of empty lines; i is the 0-based loop index
RECURSIVE TleLoop(_, _, _)
TleLoop(lines, i, out) ==
    IF ~(i < Len(lines) - 2) THEN out
    ELSE LET satId == nameToSatId(lines[i + 1])
         IN IF satId = NoSat \/ out[satId] # NoTle
            THEN TleLoop(lines, i + 3, out)
            ELSE TleLoop(lines, i + 3,
                         [out EXCEPT ![satId] =
                             [line1 |-> lines[i + 2],
                              line2 |-> lines[i + 3]]])

\* lines 195-202 (and 394-401): rawLines is the text split at its line
\* breaks
ParseTleText(rawLines) ==
    TleLoop(CleanLines(rawLines), 0, [s \in Sats |-> NoTle])

\* lines 175-187 (and 375-387)
StubTle(v) == IF v = "dir" THEN StubTleDir ELSE StubTleCand

TleGroup(name, t) == <<name, t.line1, t.line2>>

\* the texts the element-set fetch can return
TleTexts ==
    { TleGroup("GOES 19", RealTle19) \o TleGroup("GOES 18", RealTle18),
      TleGroup("GOES 16", RealTle18) \o TleGroup("GOES 19", RealTle19),
      TleGroup("GOES 19", DecayedTle) \o TleGroup("goes 18", RealTle18),
      TleGroup("GOES 18", DecayedTle) \o TleGroup("GOES-19", RealTle19) }

----------------------------------------------------------------------------
(* main.ts: loadSatellites, the click handler of the element-set button    *)
(* and animate (lines 1-380; lines 381-685 hold the same three with a      *)
(* forEach in place of the Promise.all).  A camera and a texture are named *)
(* by the satellite and by the load that made them.                        *)

Min(a, b) == IF a < b THEN a ELSE b

\* the value a uniform is constructed with (lines 89-96)
Blank == [blank |-> TRUE]

\* what fetchLatestGoesFrames can resolve with: the frames' satellites, in
\* the order of goes.ts lines 66-76 (and 322-323)
FrameLists == {<<>>, <<"G19">>, <<"G18">>, <<"G19", "G18">>}

\* lines 213-217 and 252-260: the SatelliteProjector pushed for frame f
Projector(sat, load) ==
    [sat |-> sat,
     camera |-> [camera |-> sat, load |-> load],
     texture |-> [texture |-> sat, load |-> load]]

\* lines 261-267: the widget pushed for frame f, the i-th of its load
Widget(sat, load, i) == [sat |-> sat, load |-> load, top |-> 20 + i * 148]

\* lines 87-97
InitialUniforms ==
    [numProjectors |-> 0,
     tex |-> [i \in 0..3 |-> Blank],
     cameraMatrix |-> [i \in 0..3 |-> Blank],
     projectorCameraPosition |-> [i \in 0..3 |-> Blank],
     cameraProjection |-> [i \in 0..3 |-> Blank]]

\* the state once the DOMContentLoaded handler has run: the material is
\* built and the load of line 185 has cleared the lists and awaits its
\* frames
UiInit ==
    /\ satellites = <<>>
    /\ satelliteImageWidgets = <<>>
    /\ loads = <<"awaiting">>
    /\ uniforms = InitialUniforms
    /\ rendered = [parity |-> FALSE, sources |-> <<>>]

\* lines 318-325 with 200-202: the click turns the real element sets on
\* and calls loadSatellites, which empties both lists and awaits
\* fetchLatestGoesFrames
ClickLoadTle ==
    /\ Len(loads) < MaxLoads
    /\ useRealTle' = TRUE
    /\ satellites' = <<>>
    /\ satelliteImageWidgets' = <<>>
    /\ loads' = Append(loads, "awaiting")
    /\ UNCHANGED <<cacheVars, variant, fnow, flf, img, tle, probe, uniforms,
                   rendered>>

\* lines 202-268: the frames of load l arrive; one projector and one widget
\* are pushed per frame, in the frames' order
LoadResolves(l, frames) ==
    /\ l \in DOMAIN loads /\ loads[l] = "awaiting"
    /\ satellites' = satellites \o
           [i \in 1..Len(frames) |-> Projector(frames[i], l)]
    /\ satelliteImageWidgets' = satelliteImageWidgets \o
           [i \in 1..Len(frames) |-> Widget(frames[i], l, i - 1)]
    /\ loads' = [loads EXCEPT ![l] = "done"]
    /\ UNCHANGED <<cacheVars, frameVars, probe, uniforms, rendered>>

\* line 202: fetchLatestGoesFrames rejects, and so does the load
LoadRejects(l) ==
    /\ l \in DOMAIN loads /\ loads[l] = "awaiting"
    /\ loads' = [loads EXCEPT ![l] = "rejected"]
    /\ UNCHANGED <<cacheVars, frameVars, probe, satellites,
                   satelliteImageWidgets, uniforms, rendered>>

\* every satellite of the list given a slot
UniformsAfter_Unclamped(sats, u) ==
    LET n == Len(sats)
    IN [numProjectors |-> n,
        tex |-> [i \in 0..3 |-> IF n > i THEN sats[i + 1].texture
                                ELSE u.tex[i]],
        cameraMatrix |->
            [i \in 0..3 |-> IF i < n THEN sats[i + 1].camera
                            ELSE u.cameraMatrix[i]],
        projectorCameraPosition |->
            [i \in 0..3 |-> IF i < n THEN sats[i + 1].camera
                            ELSE u.projectorCameraPosition[i]],
        cameraProjection |->
            [i \in 0..3 |-> IF i < n THEN sats[i + 1].camera
                            ELSE u.cameraProjection[i]]]

\* lines 349-359: the uniforms animate leaves; the matrix, the position
\* and the projection copied into a slot are those of one camera
UniformsAfter(sats, u) ==
    LET n == Min(Len(sats), 4)
    IN [numProjectors |-> n,
        tex |-> [i \in 0..3 |-> IF n > i THEN sats[i + 1].texture
                                ELSE u.tex[i]],
        cameraMatrix |->
            [i \in 0..3 |-> IF i < n THEN sats[i + 1].camera
                            ELSE u.cameraMatrix[i]],
        projectorCameraPosition |->
            [i \in 0..3 |-> IF i < n THEN sats[i + 1].camera
                            ELSE u.projectorCameraPosition[i]],
        cameraProjection |->
            [i \in 0..3 |-> IF i < n THEN sats[i + 1].camera
                            ELSE u.cameraProjection[i]]]

\* projectorMaterial.ts lines 102-113: the slots main calls projectColor
\* for, numProjectors > k for k = 0..3
Composited(u) ==
    LET active == {k \in 0..3 : u.numProjectors > k}
    IN [j \in 1..Cardinality(active) |->
           [tex |-> u.tex[j - 1],
            cameraMatrix |-> u.cameraMatrix[j - 1],
            projectorCameraPosition |-> u.projectorCameraPosition[j - 1],
            cameraProjection |-> u.cameraProjection[j - 1]]]

\* lines 345-363: one animation step: the uniforms are written and the
\* frame is drawn
Animate ==
    /\ uniforms' = UniformsAfter(satellites, uniforms)
    /\ rendered' = [parity |-> ~rendered.parity,
                    sources |-> Composited(uniforms')]
    /\ UNCHANGED <<cacheVars, frameVars, probe, satellites,
                   satelliteImageWidgets, loads>>

----------------------------------------------------------------------------
(* goes.ts: fetchLatestGoesFrames and resolveLatestImage                   *)

NoImage == [none |-> TRUE]

IdleImg ==
    [pc |-> "idle", idx |-> 0, fetched |-> <<>>, outcomes |-> <<>>,
     loads |-> <<>>, fault |-> "none", url |-> <<>>, ts |-> NoDate,
     resOk |-> "none",  \* res.ok of the directory response
     html |-> <<>>,     \* the listing read from it
     resUrl |-> <<>>,   \* res.url of the candidate's response
     lastMod |-> NULL,  \* its Last-Modified header
     result |-> NoImage]

IdleFlf ==
    [pc |-> "idle", real |-> FALSE, kind |-> "none", out |-> <<>>,
     err |-> "none"]

NoTles == [fetched |-> FALSE, bySat |-> [s \in Sats |-> NoTle]]

\* the instants `new Date()` can yield
Now0 == DateUTC(2025, 7, 12, 23, 30, 0)
NowStep == 6 * 3600

\* the images the loader can deliver
Images ==
    { [naturalWidth |-> 1080, naturalHeight |-> 1080,
       width |-> 0, height |-> 0] }

\* directory listings: the file names a listing shows
StampA == <<2, 0, 2, 5, 2, 2, 4, 2, 3, 1, 0>>
StampB == <<2, 0, 2, 5, 2, 2, 4, 1, 7, 1, 0>>
StampLong == <<2, 0, 2, 5, 2, 2, 4, 2, 3, 5, 0, 0>>
Entry(stamp, sat, size) == [stamp |-> stamp, sat |-> sat, size |-> size]
OtherSat(sat) == IF sat = "G19" THEN "G18" ELSE "G19"
Listings(sat) ==
    { <<Entry(StampB, sat, 1808), Entry(StampA, sat, 1808),
        Entry(StampA, sat, 678)>>,
      <<Entry(StampA, sat, 1808), Entry(StampLong, sat, 1808),
        Entry(StampB, sat, 1808)>>,
      <<Entry(StampA, OtherSat(sat), 1808), Entry(StampB, sat, 678)>> }

\* the final URLs a candidate's response can report (res.url): none, or a
\* redirect target with the capture time in its name
NoUrl == <<>>
RedirectUrl ==
    <<GOES_CDN_BASE, Chr("/"), Dig(<<2, 0, 2, 5, 0, 8, 1, 2>>), Chr("-"),
      Dig(<<2, 3, 1, 0>>), Chr("."), Txt("jpg")>>
ResponseUrls == {NoUrl, RedirectUrl}
ImageLastMods == {NULL, HttpDateGood, HttpDateBad}

\* line 56 (and 313): both resolutions are started
FlfStart ==
    /\ flf.pc = "idle"
    /\ flf' = [flf EXCEPT !.pc = "images"]
    /\ img' = [s \in Sats |->
                  [IdleImg EXCEPT !.pc = "fetch",
                                  !.idx = IF variant = "cand" THEN 1 ELSE 0,
                                  !.fetched = IF variant = "cand"
                                              THEN <<1>> ELSE <<>>]]
    /\ UNCHANGED <<variant, fnow, useRealTle, tle>>

\* line 172 (and 372)
enableRealTleFetch ==
    /\ ~useRealTle
    /\ useRealTle' = TRUE
    /\ UNCHANGED <<variant, fnow, flf, img, tle>>

\* the values `new Date()` can yield when it is evaluated next: time does
\* not run backwards
NowChoices == {t \in {Now0 + k * NowStep : k \in 0..MaxTicks} : t >= fnow}

ImgStep(s, new) ==
    /\ img' = [img EXCEPT ![s] = new]
    /\ UNCHANGED <<variant, fnow, useRealTle, flf, tle>>

\* line 128: the directory fetch rejects; getRecentImage has no handler
DirFetchThrow(s) ==
    /\ variant = "dir" /\ img[s].pc = "fetch"
    /\ ImgStep(s, [img[s] EXCEPT !.pc = "rejected",
                                 !.fault = "fetchThrow"])

\* lines 128-130, 142
DirFetchResponse(s, ok) ==
    /\ variant = "dir" /\ img[s].pc = "fetch"
    /\ ImgStep(s, IF ok THEN [img[s] EXCEPT !.pc = "text", !.resOk = "yes"]
                  ELSE [img[s] EXCEPT !.pc = "resolved", !.resOk = "no",
                                      !.result = NoImage])

\* line 130: res.text() rejects
DirTextThrow(s) ==
    /\ variant = "dir" /\ img[s].pc = "text"
    /\ ImgStep(s, [img[s] EXCEPT !.pc = "rejected",
                                 !.fault = "textThrow"])

\* lines 130-138, 142
DirText(s, html) ==
    /\ variant = "dir" /\ img[s].pc = "text"
    /\ LET matches == ListingMatches(html, s)
       IN IF Len(matches) > 0
          THEN LET latest == LatestMatch(matches)
                   filename == GoesNFilename(latest.stamp, s, 1808)
                   url == GeocolorDir(s) \o filename
                   ts == parseGoesNFilenameTimestamp(latest.stamp)
               IN ImgStep(s, [img[s] EXCEPT !.pc = "load", !.url = url,
                                            !.ts = ts, !.html = html,
                                            !.loads = Append(@, url)])
          ELSE ImgStep(s, [img[s] EXCEPT !.pc = "resolved", !.html = html,
                                         !.result = NoImage])

\* lines 138-139
DirLoadResolve(s, image) ==
    /\ variant = "dir" /\ img[s].pc = "load"
    /\ ImgStep(s, [img[s] EXCEPT !.pc = "resolved",
                      !.result = [url |-> img[s].url, image |-> image,
                                  timestamp |-> img[s].ts]])

\* line 138: the loader rejects; getRecentImage has no handler
DirLoadReject(s) ==
    /\ variant = "dir" /\ img[s].pc = "load"
    /\ ImgStep(s, [img[s] EXCEPT !.pc = "rejected",
                                 !.fault = "loadReject"])

\* the loop giving up after the first failed candidate
NextCandidate_GivesUp(im, outcome) ==
    [im EXCEPT !.pc = "resolved", !.result = NoImage,
               !.outcomes = Append(@, outcome)]

\* lines 351, 365-367: the loop goes to the next candidate, or ends
NextCandidate(im, outcome) ==
    IF im.idx < Len(IMAGE_CANDIDATES("G19"))
    THEN [im EXCEPT !.pc = "fetch", !.idx = @ + 1,
                    !.outcomes = Append(@, outcome),
                    !.fetched = Append(@, im.idx + 1),
                    !.resUrl = NoUrl, !.lastMod = NULL]
    ELSE [im EXCEPT !.pc = "resolved", !.result = NoImage,
                    !.outcomes = Append(@, outcome),
                    !.resUrl = NoUrl, !.lastMod = NULL]

\* lines 354, 365: the fetch rejects and the catch swallows it
CandFetchThrow(s) ==
    /\ variant = "cand" /\ img[s].pc = "fetch"
    /\ ImgStep(s, NextCandidate(img[s], "throw"))

\* a ?? b ?? c on dates
FirstDate(a, b, c) == IF a # NoDate THEN a ELSE IF b # NoDate THEN b ELSE c

\* parseTimestampFromUrl on the URLs a response can have, evaluated once
FinalUrls ==
    (ResponseUrls \ {NoUrl})
        \cup {IMAGE_CANDIDATES(s)[k] : s \in Sats, k \in 1..3}
UrlTimestamp == [u \in FinalUrls |-> parseTimestampFromUrl(u)]

\* the Last-Modified header consulted before the URL
CandidateStamp_HeaderFirst(candidate, resUrl, lastModified, now) ==
    LET finalUrl == IF resUrl # NoUrl THEN resUrl ELSE candidate
    IN [url |-> finalUrl,
        ts |-> FirstDate(parseHttpDate(lastModified),
                         UrlTimestamp[finalUrl],
                         DateOf(now))]

\* lines 357-360: the final URL and the timestamp of a candidate that
\* responded ok
CandidateStamp(candidate, resUrl, lastModified, now) ==
    LET finalUrl == IF resUrl # NoUrl THEN resUrl ELSE candidate
    IN [url |-> finalUrl,
        ts |-> FirstDate(UrlTimestamp[finalUrl],
                         parseHttpDate(lastModified),
                         DateOf(now))]

\* line 360: new Date() is evaluated only when the two parses gave null
ReadsClock(candidate, resUrl, lastModified) ==
    LET finalUrl == IF resUrl # NoUrl THEN resUrl ELSE candidate
    IN /\ UrlTimestamp[finalUrl] = NoDate
       /\ parseHttpDate(lastModified) = NoDate

\* lines 354-363
CandFetchResponse(s, ok, resUrl, lastModified, now) ==
    /\ variant = "cand" /\ img[s].pc = "fetch"
    /\ IF ~ok
       THEN /\ now = fnow
            /\ ImgStep(s, NextCandidate(img[s], "notok"))
       ELSE LET candidate == IMAGE_CANDIDATES(s)[img[s].idx]
                st == CandidateStamp(candidate, resUrl, lastModified, now)
            IN /\ ReadsClock(candidate, resUrl, lastModified) \/ now = fnow
               /\ fnow' = now
               /\ img' = [img EXCEPT ![s] =
                             [img[s] EXCEPT !.pc = "load", !.url = st.url,
                                            !.ts = st.ts,
                                            !.resUrl = resUrl,
                                            !.lastMod = lastModified]]
               /\ UNCHANGED <<variant, useRealTle, flf, tle>>

\* lines 363-364
CandLoadResolve(s, image) ==
    /\ variant = "cand" /\ img[s].pc = "load"
    /\ ImgStep(s, [img[s] EXCEPT !.pc = "resolved",
                      !.outcomes = Append(@, "ok"),
                      !.result = [url |-> img[s].url, image |-> image,
                                  timestamp |-> img[s].ts]])

\* lines 363, 365: the loader rejects and the catch swallows it
CandLoadReject(s) ==
    /\ variant = "cand" /\ img[s].pc = "load"
    /\ ImgStep(s, NextCandidate(img[s], "loadreject"))

\* lines 57-60 (and 314-317): Promise.all rejects with the first rejection
FlfImagesRejected ==
    /\ flf.pc = "images"
    /\ \E s \in Sats : img[s].pc = "rejected"
    /\ flf' = [flf EXCEPT !.pc = "done", !.kind = "throw",
                          !.err = "image resolution rejected"]
    /\ UNCHANGED <<variant, fnow, useRealTle, img, tle>>

\* lines 57-62 (and 314-319): Promise.all resolves and
\* fetchGoesTLEsBySatId is called; it reads USE_REAL_TLE
FlfImagesResolved ==
    /\ flf.pc = "images"
    /\ \A s \in Sats : img[s].pc = "resolved"
    /\ flf' = [flf EXCEPT !.pc = "tle", !.real = useRealTle]
    /\ UNCHANGED <<variant, fnow, useRealTle, img, tle>>

\* lines 64-77 (and 321-324): the frames are built, G19 first; a throw of
\* buildFrame ends the call
Assemble(bySat, now) ==
    LET Wanted(s) == img[s].result # NoImage /\ bySat[s] # NoTle
        Built(s) == buildFrame(s, FrameInput(variant, img[s].result, now),
                               bySat[s])
    IN IF Wanted("G19") /\ Built("G19").threw
       THEN [threw |-> TRUE, msg |-> Built("G19").msg, out |-> <<>>]
       ELSE IF Wanted("G18") /\ Built("G18").threw
       THEN [threw |-> TRUE, msg |-> Built("G18").msg, out |-> <<>>]
       ELSE [threw |-> FALSE, msg |-> "none",
             out |-> (IF Wanted("G19") THEN <<Built("G19").value>>
                      ELSE <<>>)
                     \o (IF Wanted("G18") THEN <<Built("G18").value>>
                         ELSE <<>>)]

\* lines 68, 74: new Date() is evaluated for a wanted frame whose image has
\* no valid timestamp
AssemblyReadsClock(bySat) ==
    /\ variant = "dir"
    /\ \E s \in Sats : /\ img[s].result # NoImage /\ bySat[s] # NoTle
                       /\ ~IsValidDate(img[s].result.timestamp)

FlfFinish(bySat, now) ==
    LET a == Assemble(bySat, now)
    IN /\ AssemblyReadsClock(bySat) \/ now = fnow
       /\ fnow' = now
       /\ tle' = [fetched |-> TRUE, bySat |-> bySat]
       /\ flf' = IF a.threw
                 THEN [flf EXCEPT !.pc = "done", !.kind = "throw",
                                  !.err = a.msg]
                 ELSE [flf EXCEPT !.pc = "done", !.kind = "return",
                                  !.out = a.out]
       /\ UNCHANGED <<variant, useRealTle, img>>

\* lines 175-187 (and 375-387), then lines 62-77
FlfTleStub(now) ==
    /\ flf.pc = "tle" /\ ~flf.real
    /\ FlfFinish(StubTle(variant), now)

\* lines 190-204 (and 389-402), then lines 62-77
FlfTleText(lines, now) ==
    /\ flf.pc = "tle" /\ flf.real
    /\ FlfFinish(ParseTleText(lines), now)

\* line 190 (and 389): fetchTextCached throws
FlfTleThrow ==
    /\ flf.pc = "tle" /\ flf.real
    /\ flf' = [flf EXCEPT !.pc = "done", !.kind = "throw",
                          !.err = "element-set fetch failed"]
    /\ UNCHANGED <<variant, fnow, useRealTle, img, tle>>

FramesInit ==
    /\ variant \in {"dir", "cand"}
    /\ fnow = Now0
    /\ useRealTle = FALSE
    /\ flf = IdleFlf
    /\ img = [s \in Sats |-> IdleImg]
    /\ tle = NoTles

CacheInit ==
    /\ store = [u \in Urls |-> NoRecord]
    /\ clock = 0
    /\ calls = [c \in CallIds |-> IdleCall]
    /\ started = 0
    /\ newest = [u \in Urls |-> NULL]

NoProbe == [fn |-> "none"]

Init ==
    /\ CacheInit /\ FramesInit /\ variant = "dir" /\ probe = NoProbe
    /\ UiInit

\* no execution of fetchTextCached is in progress
NoneActive == \A d \in CallIds : calls[d].pc \in {"idle", "done"}

\* Spec runs the calls one after another (each call is awaited before the
\* next is made)
Start ==
    /\ NoneActive
    /\ \E c \in CallIds, url \in Urls, ttlMs \in TtlChoices,
          revalidate \in BOOLEAN, now \in 0..MaxClock :
           FtcStart(c, url, ttlMs, revalidate, now)
    /\ UNCHANGED <<frameVars, probe, uiVars>>

IdbGet == UNCHANGED <<frameVars, probe, uiVars>> /\ \E c \in CallIds : FtcIdbGet(c)

FetchReject == UNCHANGED <<frameVars, probe, uiVars>> /\ \E c \in CallIds : FtcFetchReject(c)

FetchResponse ==
    /\ UNCHANGED <<frameVars, probe, uiVars>>
    /\ \E c \in CallIds, status \in Statuses, etag \in ETags,
          lastModified \in LastMods, body \in Bodies :
           FtcFetchResponse(c, status, etag, lastModified,
                            IF ResOk(status) THEN body ELSE EmptyBody)

Text == UNCHANGED <<frameVars, probe, uiVars>> /\ \E c \in CallIds : FtcText(c)

IdbSet == UNCHANGED <<frameVars, probe, uiVars>> /\ \E c \in CallIds : FtcIdbSet(c)

Next ==
    \/ Start
    \/ IdbGet
    \/ FetchReject
    \/ FetchResponse
    \/ Text
    \/ IdbSet

Spec == Init /\ [][Next]_vars

----------------------------------------------------------------------------
(* ConcSpec: executions of fetchTextCached that overlap.  Nothing in       *)
(* tleCache.ts serialises the calls: a second call can be entered at every *)
(* await of the first (lines 27, 49, 67, 80, 91).                          *)

\* every call slot is used once: as many executions as there are slots,
\* overlapping in every possible way
ConcStart ==
    /\ started < Cardinality(CallIds)
    /\ \E c \in CallIds, url \in Urls, ttlMs \in TtlChoices,
          revalidate \in BOOLEAN, now \in 0..MaxClock :
           FtcStart(c, url, ttlMs, revalidate, now)
    /\ UNCHANGED <<frameVars, probe, uiVars>>

ConcNext ==
    \/ ConcStart
    \/ IdbGet
    \/ FetchReject
    \/ FetchResponse
    \/ Text
    \/ IdbSet

ConcSpec == Init /\ [][ConcNext]_vars

----------------------------------------------------------------------------
(* FramesSpec: one execution of fetchLatestGoesFrames                      *)

DirFetch ==
    \E s \in Sats : DirFetchThrow(s) \/ \E ok \in BOOLEAN : DirFetchResponse(s, ok)

DirListing ==
    \E s \in Sats : DirTextThrow(s) \/ \E html \in Listings(s) : DirText(s, html)

DirLoad ==
    \E s \in Sats : DirLoadReject(s) \/ \E image \in Images : DirLoadResolve(s, image)

CandFetch ==
    \E s \in Sats :
        \/ CandFetchThrow(s)
        \/ \E ok \in BOOLEAN, resUrl \in ResponseUrls,
              lastModified \in ImageLastMods, now \in NowChoices :
               CandFetchResponse(s, ok, resUrl, lastModified, now)

CandLoad ==
    \E s \in Sats : CandLoadReject(s) \/ \E image \in Images : CandLoadResolve(s, image)

FlfTle ==
    \/ FlfTleThrow
    \/ \E now \in NowChoices :
           FlfTleStub(now) \/ \E lines \in TleTexts : FlfTleText(lines, now)

FramesNext ==
    /\ UNCHANGED <<cacheVars, probe, uiVars>>
    /\ \/ FlfStart
       \/ enableRealTleFetch
       \/ DirFetch
       \/ DirListing
       \/ DirLoad
       \/ CandFetch
       \/ CandLoad
       \/ FlfImagesRejected
       \/ FlfImagesResolved
       \/ FlfTle

FramesSpecInit == CacheInit /\ FramesInit /\ probe = NoProbe /\ UiInit

FramesSpec == FramesSpecInit /\ [][FramesNext]_vars

----------------------------------------------------------------------------
(* projectorMaterial.ts: the fragment shader of lines 55-125.  Numbers are  *)
(* exact: a fraction is a record [n, d] in lowest terms with d > 0, a       *)
(* vector a record [x, y, z] of integers.  A projector stands on the +X     *)
(* axis with up = (0, 0, 1), as main.ts line 214 sets it, and is aimed at   *)
(* the origin (main.ts line 216) or away from it; its projection is that    *)
(* of a THREE.PerspectiveCamera of aspect 1, focal being 1/tan(fov/2).      *)

Abs(n) == IF n < 0 THEN -n ELSE n

RECURSIVE Gcd(_, _)
Gcd(a, b) == IF b = 0 THEN a ELSE Gcd(b, a % b)

\* n/d in lowest terms, d # 0
Frac(n, d) ==
    LET g == Gcd(Abs(n), Abs(d))
        sg == IF d < 0 THEN -1 ELSE 1
    IN [n |-> sg * (n \div g), d |-> sg * (d \div g)]

FracMul(a, b) == Frac(a.n * b.n, a.d * b.d)

\* 1.0 - a
OneMinus(a) == Frac(a.d - a.n, a.d)

\* clamp(a, 0.0, 1.0)
Clamp01(a) ==
    IF a.n < 0 THEN Frac(0, 1) ELSE IF a.n > a.d THEN Frac(1, 1) ELSE a

\* smoothstep(0.0, edge, x): t = clamp(x / edge, 0, 1); t * t * (3 - 2 * t)
smoothstep0(edge, x) ==
    LET t == Clamp01(Frac(x.n * edge.d, x.d * edge.n))
    IN Frac(t.n * t.n * (3 * t.d - 2 * t.n), t.d * t.d * t.d)

Vec(x, y, z) == [x |-> x, y |-> y, z |-> z]
Minus(a, b) == Vec(a.x - b.x, a.y - b.y, a.z - b.z)
Dot(a, b) == a.x * b.x + a.y * b.y + a.z * b.z

\* line 57
MAX_PROJECTORS == 4

\* line 84: edge = 0.1
FadeEdge == Frac(1, 10)

\* vec4(0.0): the alpha is tex * fade * facing, kept in factors because
\* facing is the square root of a fraction: facing = sgn * sqrt(sq)
ZeroAlpha == [tex |-> 0, fade |-> Frac(0, 1),
              facing |-> [sgn |-> 0, sq |-> Frac(0, 1)]]
ZeroVec4 == [rgb |-> <<0, 0, 0>>, a |-> ZeroAlpha]

\* c.a = 0.0
AlphaIsZero(a) == a.tex = 0 \/ a.fade.n = 0 \/ a.facing.sgn = 0

\* line 76: dot(normalize(P), normalize(C - P))
Facing(P, C) ==
    LET dt == Dot(P, Minus(C, P))
    IN [sgn |-> IF dt > 0 THEN 1 ELSE IF dt < 0 THEN -1 ELSE 0,
        sq |-> Frac(dt * dt, Dot(P, P) * Dot(Minus(C, P), Minus(C, P)))]

\* line 77: facing > 0.01
FacingPasses(fc) == fc.sgn > 0 /\ 10000 * fc.sq.n > fc.sq.d

\* line 79: inverse(cameraMatrix) * vec4(dir, 0.0), times the length of
\* P - C.  The columns of the camera's world matrix are the axes lookAt
\* builds from eye - target and up: aimed at the origin from the +X axis
\* they are (0,1,0), (0,0,1), (1,0,0); aimed away, (0,-1,0), (0,0,1),
\* (-1,0,0)
CamSpace(src, D) ==
    IF src.aim = "centre" THEN Vec(D.y, D.z, D.x) ELSE Vec(-D.y, D.z, -D.x)

\* line 80: cameraProjection * vec4(camSpace.xyz, 1.0), its x, y and w
Ndc(src, cs) == [x |-> src.focal * cs.x, y |-> src.focal * cs.y, w |-> -cs.z]

\* lines 78-80: the homogeneous w of the point, times the length of P - C
ClipW(src, P) == Ndc(src, CamSpace(src, Minus(P, src.position))).w

\* lines 81-94, after the facing test
Projected(src, tex, P, fc) ==
    LET ndc == Ndc(src, CamSpace(src, Minus(P, src.position)))
    IN IF ndc.w = 0 THEN ZeroVec4
       ELSE LET ux == Frac(ndc.x + ndc.w, 2 * ndc.w)
                uy == Frac(ndc.y + ndc.w, 2 * ndc.w)
            IN IF ux.n < 0 \/ ux.n > ux.d \/ uy.n < 0 \/ uy.n > uy.d
               THEN ZeroVec4
               ELSE LET fade ==
                          FracMul(FracMul(smoothstep0(FadeEdge, ux),
                                          smoothstep0(FadeEdge, uy)),
                                  FracMul(smoothstep0(FadeEdge, OneMinus(ux)),
                                          smoothstep0(FadeEdge, OneMinus(uy))))
                    IN [rgb |-> tex.rgb,
                        a |-> [tex |-> tex.a, fade |-> fade, facing |-> fc]]

\* lines 73-97: projectColor(idx, tex) at the surface point vWorldPosition;
\* src holds the uniforms of slot idx, tex the colour of the image
projectColor(src, tex, vWorldPosition) ==
    LET fc == Facing(vWorldPosition, src.position)
    IN IF FacingPasses(fc) THEN Projected(src, tex, vWorldPosition, fc)
       ELSE ZeroVec4

FracAdd(a, b) == Frac(a.n * b.d + b.n * a.d, a.d * b.d)

\* a / b, b # 0
FracDiv(a, b) == Frac(a.n * b.d, a.d * b.n)

FracLeq(a, b) == a.n * b.d <= b.n * a.d

\* colours: <<r, g, b>> of fractions
ScaleRgb(c, f) == [i \in 1..3 |-> FracMul(c[i], f)]
AddRgb(a, b) == [i \in 1..3 |-> FracAdd(a[i], b[i])]

\* mix(x, y, t) = x * (1 - t) + y * t
mix(x, y, t) == AddRgb(ScaleRgb(x, OneMinus(t)), ScaleRgb(y, t))

\* line 70
baseColor == <<Frac(1, 10), Frac(3, 10), Frac(7, 10)>>

\* lines 103-114: one of the four guarded accumulations; c[k + 1] is
\* the value projectColor(k, texk) returned
Accumulate(acc, numProjectors, k, c) ==
    IF numProjectors > k
    THEN [color |-> AddRgb(acc.color, ScaleRgb(c[k + 1].rgb, c[k + 1].a)),
          totalAlpha |-> FracAdd(acc.totalAlpha, c[k + 1].a)]
    ELSE acc

\* lines 103-114
Accumulated(numProjectors, c) ==
    Accumulate(
        Accumulate(
            Accumulate(
                Accumulate([color |-> <<Frac(0, 1), Frac(0, 1), Frac(0, 1)>>,
                            totalAlpha |-> Frac(0, 1)],
                           numProjectors, 0, c),
                numProjectors, 1, c),
            numProjectors, 2, c),
        numProjectors, 3, c)

\* the accumulated colour blended without the division by the total
main_Summed(numProjectors, c, diffuse) ==
    LET acc == Accumulated(numProjectors, c)
        base == ScaleRgb(baseColor, diffuse)
    IN IF acc.totalAlpha.n > 0
       THEN [rgb |-> mix(base, acc.color, Clamp01(acc.totalAlpha)),
             a |-> Frac(1, 1)]
       ELSE [rgb |-> base, a |-> Frac(1, 1)]

\* lines 99-125: gl_FragColor; diffuse is the value of line 115
main(numProjectors, c, diffuse) ==
    LET acc == Accumulated(numProjectors, c)
        base == ScaleRgb(baseColor, diffuse)
    IN IF acc.totalAlpha.n > 0
       THEN [rgb |-> mix(base,
                         ScaleRgb(acc.color,
                                  FracDiv(Frac(1, 1), acc.totalAlpha)),
                         Clamp01(acc.totalAlpha)),
             a |-> Frac(1, 1)]
       ELSE [rgb |-> base, a |-> Frac(1, 1)]

----------------------------------------------------------------------------
(* AppSpec: the page after DOMContentLoaded: clicks on the element-set     *)
(* button, loads that resolve or reject in any order, animation steps.     *)

AppNext ==
    \/ ClickLoadTle
    \/ \E l \in 1..MaxLoads, frames \in FrameLists : LoadResolves(l, frames)
    \/ \E l \in 1..MaxLoads : LoadRejects(l)
    \/ Animate

AppSpec == Init /\ [][AppNext]_vars

----------------------------------------------------------------------------
(* PureSpec: one application of a pure helper of goes.ts to an input drawn *)
(* from a bounded set.  A probe holds the helper's name, its argument, the *)
(* shape and the components the argument was written from, and the result. *)

Pending == [pending |-> TRUE]

\* n written with w decimal digits
RECURSIVE Digits(_, _)
Digits(n, w) ==
    IF w = 0 THEN <<>> ELSE Append(Digits(n \div 10, w - 1), n % 10)

\* calendar days with their day of the year
ProbeDays ==
    { [y |-> 2025, mo |-> 8, d |-> 12, doy |-> 224],
      [y |-> 2025, mo |-> 8, d |-> 13, doy |-> 225],
      [y |-> 2024, mo |-> 2, d |-> 29, doy |-> 60],
      [y |-> 2023, mo |-> 3, d |-> 1, doy |-> 60],
      [y |-> 2024, mo |-> 12, d |-> 31, doy |-> 366],
      [y |-> 1999, mo |-> 1, d |-> 1, doy |-> 1] }

ProbeTimes ==
    { [hh |-> 23, mm |-> 10, ss |-> 45],
      [hh |-> 23, mm |-> 59, ss |-> 59],
      [hh |-> 0, mm |-> 0, ss |-> 0] }

ProbeExts == {"jpg", "png", "jpeg", "JPG"}

\* what precedes the stamp: ".../GOES19_" and a full CDN path
ProbePrefixes ==
    { <<Chr("."), Chr("."), Chr("."), Chr("/"), Txt("GOES"), Dig(<<1, 9>>),
        Chr("_")>>,
      GeocolorDir("G18") \o <<Txt("GOES"), Dig(<<1, 8>>), Chr("-")>> }

YmdDigits(day) == Digits(day.y, 4) \o Digits(day.mo, 2) \o Digits(day.d, 2)

\* prefix YYYYMMDD-HHMM.ext
UrlDashed(prefix, day, t, ext) ==
    prefix \o <<Dig(YmdDigits(day)), Chr("-"),
                Dig(Digits(t.hh, 2) \o Digits(t.mm, 2)),
                Chr("."), Txt(ext)>>

\* prefix YYYYMMDDHHMMSS_full.ext
UrlPacked(prefix, day, t, ext) ==
    prefix \o <<Dig(YmdDigits(day) \o Digits(t.hh, 2) \o Digits(t.mm, 2)
                        \o Digits(t.ss, 2)),
                Chr("_"), Txt("full"), Chr("."), Txt(ext)>>

\* https://x/y/YYYY/DDD/whatever-HHMMSS.ext
UrlDayOfYear(day, t, ext) ==
    <<Host("https://x"), Chr("/"), Txt("y"), Chr("/"), Dig(Digits(day.y, 4)),
      Chr("/"), Dig(Digits(day.doy, 3)), Chr("/"), Txt("whatever"),
      Chr("-"),
      Dig(Digits(t.hh, 2) \o Digits(t.mm, 2) \o Digits(t.ss, 2)),
      Chr("."), Txt(ext)>>

\* strings of none of the shapes: no digits, too few digits, a day of the
\* year of two digits, an extension that is not an image's, the empty
\* string, and the candidate URLs
UrlsWithoutStamp ==
    { <<Txt("no"), Chr("-"), Txt("time"), Chr("-"), Txt("here"), Chr("."),
        Txt("jpg")>>,
      <<Txt("x"), Chr("_"), Dig(<<2, 0, 2, 5, 0, 8, 1>>), Chr("-"),
        Dig(<<2, 3, 1, 0>>), Chr("."), Txt("jpg")>>,
      <<Txt("x"), Chr("_"), Dig(<<2, 0, 2, 5, 0, 8, 1, 2>>), Chr("-"),
        Dig(<<2, 3, 1>>), Chr("."), Txt("jpg")>>,
      <<Chr("/"), Dig(<<2, 0, 2, 5>>), Chr("/"), Dig(<<2, 2>>), Chr("/"),
        Txt("x"), Chr("-"), Dig(<<2, 3, 5, 9, 5, 9>>), Chr("."),
        Txt("jpg")>>,
      <<Txt("x"), Chr("_"), Dig(<<2, 0, 2, 5, 0, 8, 1, 2>>), Chr("-"),
        Dig(<<2, 3, 1, 0>>), Chr("."), Txt("gif")>>,
      <<>> }
    \cup {IMAGE_CANDIDATES(s)[k] : s \in Sats, k \in 1..3}

UrlProbe(shape, u, day, t, ss) ==
    [fn |-> "parseTimestampFromUrl", shape |-> shape, arg |-> u,
     y |-> day.y, mo |-> day.mo, d |-> day.d,
     hh |-> t.hh, mm |-> t.mm, ss |-> ss, out |-> Pending]

UrlProbes ==
    {UrlProbe("dashed", UrlDashed(pre, day, t, ext), day, t, 0) :
        pre \in ProbePrefixes, day \in ProbeDays, t \in ProbeTimes,
        ext \in ProbeExts}
    \cup
    {UrlProbe("packed", UrlPacked(pre, day, t, ext), day, t, t.ss) :
        pre \in ProbePrefixes, day \in ProbeDays, t \in ProbeTimes,
        ext \in ProbeExts}
    \cup
    {UrlProbe("dayOfYear", UrlDayOfYear(day, t, ext), day, t, t.ss) :
        day \in ProbeDays, t \in ProbeTimes, ext \in ProbeExts}
    \cup
    {UrlProbe("none", u, [y |-> 0, mo |-> 0, d |-> 0],
              [hh |-> 0, mm |-> 0, ss |-> 0], 0) : u \in UrlsWithoutStamp}

\* the years of the day-of-year probes: leap years (one of them a century
\* year) and common years, all within the instants a whole number of
\* seconds can hold here
ProbeYears == {1970, 2000, 2023, 2024, 2025, 2036}

IsLeapYear(y) == (y % 4 = 0 /\ y % 100 # 0) \/ y % 400 = 0

DaysInYear(y) == IF IsLeapYear(y) THEN 366 ELSE 365

DoyProbes ==
    {[fn |-> "dateFromDayOfYearUTC", year |-> y, doy |-> n, out |-> Pending] :
        y \in ProbeYears, n \in 1..366}

\* lines 243-247: the call dateFromDayOfYearUTC(year, doy)
ApplyDateFromDayOfYearUTC ==
    /\ probe.fn = "dateFromDayOfYearUTC" /\ probe.out = Pending
    /\ probe.doy <= DaysInYear(probe.year)
    /\ probe' = [probe EXCEPT
                    !.out = dateFromDayOfYearUTC(probe.year, probe.doy)]
    /\ UNCHANGED <<cacheVars, frameVars, uiVars>>

\* the element sets and instants of the propagation probes: the instants
\* of one sidereal day from 2025-01-01T00:00:00Z on, a quarter turn apart
\* and in between, and a Date that is not valid
ProbeTles == {RealTle19, RealTle18, InclinedTle, DecayedTle}

ProbeEpoch == DateUTC(2025, 0, 1, 0, 0, 0)

ProbeInstants ==
    {DateOf(ProbeEpoch - (ProbeEpoch % QuarterSiderealDay)
            + k * QuarterSiderealDay + off) :
        k \in 1..5, off \in {0, 1, 10770, 21540}}
    \cup {InvalidDate}

EcefProbes ==
    {[fn |-> "propagateToEcefMeters", tle |-> t, at |-> a, out |-> Pending] :
        t \in ProbeTles, a \in ProbeInstants}

\* lines 249-256: the call propagateToEcefMeters(tle, at)
ApplyPropagateToEcefMeters ==
    /\ probe.fn = "propagateToEcefMeters" /\ probe.out = Pending
    /\ probe' = [probe EXCEPT
                    !.out = propagateToEcefMeters(probe.tle, probe.at)]
    /\ UNCHANGED <<cacheVars, frameVars, uiVars>>

\* the surface points, projectors and image colours of the shader probes;
\* a point is never the projector's own position
ProbeCoords == -3..3

ProbePoints ==
    {Vec(x, y, z) : x \in ProbeCoords, y \in ProbeCoords, z \in ProbeCoords}
    \ {Vec(0, 0, 0)}

ProbeSources ==
    {[position |-> Vec(cx, 0, 0), aim |-> am, focal |-> f] :
        cx \in {2, 20}, am \in {"centre", "away"}, f \in {1, 6}}

ProbeTexels == {[rgb |-> <<200, 100, 50>>, a |-> 1],
                [rgb |-> <<200, 100, 50>>, a |-> 0]}

ColorProbes ==
    {[fn |-> "projectColor", src |-> sr, tex |-> t, P |-> pt,
      out |-> Pending] :
        sr \in ProbeSources, t \in ProbeTexels, pt \in ProbePoints}

\* lines 73-97: the call projectColor(idx, tex)
ApplyProjectColor ==
    /\ probe.fn = "projectColor" /\ probe.out = Pending
    /\ probe.P # probe.src.position
    /\ probe' = [probe EXCEPT
                    !.out = projectColor(probe.src, probe.tex, probe.P)]
    /\ UNCHANGED <<cacheVars, frameVars, uiVars>>

\* the values the four projectColor calls of main can return: nothing,
\* full and partial weights, a sampled colour with weight zero
White == <<Frac(1, 1), Frac(1, 1), Frac(1, 1)>>
Black == <<Frac(0, 1), Frac(0, 1), Frac(0, 1)>>
Orange == <<Frac(4, 5), Frac(2, 5), Frac(1, 5)>>

ProbeContributions ==
    {[rgb |-> Black, a |-> Frac(0, 1)],
     [rgb |-> White, a |-> Frac(0, 1)],
     [rgb |-> White, a |-> Frac(1, 1)],
     [rgb |-> Black, a |-> Frac(1, 1)],
     [rgb |-> Orange, a |-> Frac(1, 2)],
     [rgb |-> White, a |-> Frac(1, 10)]}

\* line 115: 0.5 + 0.5 * max(dot(normal, lightDir), 0.0)
ProbeDiffuse == {Frac(1, 2), Frac(1, 1)}

MainProbes ==
    {[fn |-> "main", numProjectors |-> n, c |-> cs, diffuse |-> df,
      out |-> Pending] :
        n \in 0..MAX_PROJECTORS,
        cs \in [1..MAX_PROJECTORS -> ProbeContributions],
        df \in ProbeDiffuse}

\* lines 99-125: one run of the fragment shader's main
ApplyMain ==
    /\ probe.fn = "main" /\ probe.out = Pending
    /\ probe' = [probe EXCEPT
                    !.out = main(probe.numProjectors, probe.c, probe.diffuse)]
    /\ UNCHANGED <<cacheVars, frameVars, uiVars>>

\* the element-set texts of the probes: up to MaxGroups groups of a name
\* line and the two lines of an element set, written plainly, with blank
\* lines between the lines, with blanks around the names, with a group cut
\* short at the end, or with one line in front of the first group
MaxGroups == 3

\* the element set written into group g
GroupSets == <<RealTle19, RealTle18, InclinedTle, DecayedTle>>
GroupSet(g) == GroupSets[((g - 1) % Len(GroupSets)) + 1]

RECURSIVE GroupLines(_)
GroupLines(names) ==
    IF names = <<>> THEN <<>>
    ELSE LET g == Len(names)
         IN GroupLines(SubSeq(names, 1, g - 1))
            \o <<names[g], GroupSet(g).line1, GroupSet(g).line2>>

Pad(name) == Str(<<" ", " ">> \o Chars(name) \o <<" ">>)

RECURSIVE Interleaved(_)
Interleaved(lines) ==
    IF lines = <<>> THEN <<"   ">>
    ELSE <<"", Head(lines)>> \o Interleaved(Tail(lines))

TextStyles == {"plain", "blank lines", "padded", "cut short", "shifted"}

\* the trimmed non-empty lines the text is written from
CleanText(names, style) ==
    CASE style = "cut short" ->
            GroupLines(names) \o <<"GOES T", DecayedTle.line1>>
      [] style = "shifted" -> <<"GOES U">> \o GroupLines(names)
      [] OTHER -> GroupLines(names)

\* the text, split at its line breaks
RawText(names, style) ==
    CASE style = "blank lines" -> Interleaved(GroupLines(names))
      [] style = "padded" ->
            GroupLines([g \in 1..Len(names) |-> Pad(names[g])])
      [] OTHER -> CleanText(names, style)

\* the names of the groups after the first
LaterNames == {"GOES-19", "GOES U", "goes 18", "GOES18", "NOAA 19"}

ProbeNameLists ==
    {names \in UNION {[1..k -> NameLines] : k \in 0..MaxGroups} :
        \A g \in 2..Len(names) : names[g] \in LaterNames}

TleProbes ==
    {[fn |-> "fetchGoesTLEsBySatId", clean |-> CleanText(names, style),
      rawLines |-> RawText(names, style), out |-> Pending] :
        names \in ProbeNameLists, style \in TextStyles}

\* lines 195-204: fetchGoesTLEsBySatId in real mode, from the text on
ApplyParseTleText ==
    /\ probe.fn = "fetchGoesTLEsBySatId" /\ probe.out = Pending
    /\ probe' = [probe EXCEPT !.out = ParseTleText(probe.rawLines)]
    /\ UNCHANGED <<cacheVars, frameVars, uiVars>>

\* lines 215-235: the call parseTimestampFromUrl(url)
ApplyParseTimestampFromUrl ==
    /\ probe.fn = "parseTimestampFromUrl" /\ probe.out = Pending
    /\ probe' = [probe EXCEPT !.out = parseTimestampFromUrl(probe.arg)]
    /\ UNCHANGED <<cacheVars, frameVars, uiVars>>

PureInit ==
    /\ CacheInit /\ FramesInit /\ variant = "dir" /\ UiInit
    /\ probe \in UrlProbes \cup DoyProbes \cup EcefProbes \cup ColorProbes
                 \cup MainProbes \cup TleProbes

PureNext ==
    \/ ApplyParseTimestampFromUrl
    \/ ApplyDateFromDayOfYearUTC
    \/ ApplyPropagateToEcefMeters
    \/ ApplyProjectColor
    \/ ApplyMain
    \/ ApplyParseTleText

PureSpec == PureInit /\ [][PureNext]_vars

----------------------------------------------------------------------------
(* Properties of fetchTextCached, checked under Spec                       *)

Done(c) == calls[c].pc = "done"
Responded(c) == calls[c].res # NoResponse
Contains(msg, token) == \E i \in DOMAIN msg : msg[i] = token

\* C1: a call that finds a record younger than the record's ttl and passes
\* revalidate = false calls the fetch strategy zero times, returns exactly
\* the stored body and writes nothing.
C1_FreshHitNoNetwork ==
    \A c \in CallIds :
        ( /\ Done(c)
          /\ calls[c].cached # NoRecord
          /\ calls[c].now - calls[c].cached.fetchedAt
                 < calls[c].cached.ttlMs
          /\ ~calls[c].revalidate )
        => /\ calls[c].net = 0
           /\ calls[c].ret = Returned(calls[c].cached.body)
           /\ ~calls[c].wrote
           /\ store[key(calls[c].url)] = calls[c].cached

C1_Witness ==
    \E c \in CallIds :
        /\ Done(c) /\ calls[c].branch = "hit" /\ started >= 2
        /\ calls[c].now > calls[c].cached.fetchedAt

\* C2: on a 304 for a URL with a stored record the response body is not
\* read, the stored body is returned, and the record persisted afterwards
\* keeps that url and body.
C2_NotModifiedKeepsBody ==
    \A c \in CallIds :
        ( /\ Done(c) /\ Responded(c)
          /\ calls[c].res.status = 304
          /\ calls[c].cached # NoRecord )
        => /\ ~calls[c].bodyRead
           /\ calls[c].ret = Returned(calls[c].cached.body)
           /\ store[key(calls[c].url)] # NoRecord
           /\ store[key(calls[c].url)].body = calls[c].cached.body
           /\ store[key(calls[c].url)].url = calls[c].cached.url

C2_Witness ==
    \E c \in CallIds :
        /\ Done(c) /\ Responded(c) /\ calls[c].res.status = 304
        /\ calls[c].cached # NoRecord /\ calls[c].wrote
        /\ store[key(calls[c].url)].etag # calls[c].cached.etag

\* C3: with a record of any age and a non-2xx response the call returns
\* the stored body and does not throw.
C3_StaleOnHttpFailure ==
    \A c \in CallIds :
        ( /\ Done(c) /\ Responded(c)
          /\ ~ResOk(calls[c].res.status)
          /\ calls[c].cached # NoRecord )
        => /\ calls[c].ret.kind = "return"
           /\ calls[c].ret.body = calls[c].cached.body

C3_Witness ==
    \E c \in CallIds :
        /\ Done(c) /\ Responded(c) /\ calls[c].res.status = 500
        /\ calls[c].cached # NoRecord
        /\ calls[c].now - calls[c].cached.fetchedAt >= calls[c].cached.ttlMs

\* C4: with no record and a non-2xx response the call throws an error whose
\* message names the HTTP status and the URL, and no record is created.
C4_NoCacheFailureThrows ==
    \A c \in CallIds :
        ( /\ Done(c) /\ Responded(c)
          /\ ~ResOk(calls[c].res.status)
          /\ calls[c].cached = NoRecord )
        => /\ calls[c].ret.kind = "throw"
           /\ Contains(calls[c].ret.msg, ToString(calls[c].res.status))
           /\ Contains(calls[c].ret.msg, calls[c].url)
           /\ ~calls[c].wrote
           /\ store[key(calls[c].url)] = NoRecord

C4_Witness ==
    \E c \in CallIds :
        /\ Done(c) /\ Responded(c) /\ calls[c].res.status = 500
        /\ calls[c].cached = NoRecord /\ calls[c].ret.kind = "throw"

\* C5: with a record, a revalidation attempt that fails in any way (error
\* status, or the fetch strategy itself rejecting) ends with the stale body
\* returned and nothing thrown.
C5_StaleOnAnyNetworkFailure ==
    \A c \in CallIds :
        ( /\ Done(c)
          /\ calls[c].cached # NoRecord
          /\ \/ calls[c].branch = "reject"
             \/ Responded(c) /\ ~ResOk(calls[c].res.status) )
        => /\ calls[c].ret.kind = "return"
           /\ calls[c].ret.body = calls[c].cached.body

\* a request was issued by call c
Requested(c) == calls[c].net > 0

\* C14: after a 2xx response the record stored for the URL is {url, body =
\* the response text, etag and lastModified = the response's header values,
\* fetchedAt = the call's now, ttl = the caller's ttl}, whatever was stored
\* before, and the call returns that body.
C14_SuccessRecord ==
    \A c \in CallIds :
        (Done(c) /\ Responded(c) /\ ResOk(calls[c].res.status))
        => /\ store[key(calls[c].url)] =
                  [url |-> calls[c].url, body |-> calls[c].res.body,
                   etag |-> calls[c].res.etag,
                   lastModified |-> calls[c].res.lastModified,
                   fetchedAt |-> calls[c].now, ttlMs |-> calls[c].ttlMs]
           /\ calls[c].ret = Returned(calls[c].res.body)

C14_Witness ==
    \E c \in CallIds :
        /\ Done(c) /\ Responded(c) /\ calls[c].res.status = 200
        /\ calls[c].cached # NoRecord
        /\ calls[c].cached.body # calls[c].res.body
        /\ calls[c].cached.etag = "e1" /\ calls[c].res.etag = NULL
        /\ calls[c].cached.ttlMs # calls[c].ttlMs
        /\ calls[c].cached.fetchedAt < calls[c].now

\* C15: every request carries If-None-Match = the stored etag exactly when
\* the stored record has a non-empty etag, If-Modified-Since = the stored
\* lastModified exactly when that is non-empty, neither header when there
\* is no stored record, and always the cache mode no-cache.
C15_ConditionalHeaders ==
    \A c \in CallIds :
        Requested(c) =>
            LET cached == calls[c].cached
                h == calls[c].headers
            IN /\ calls[c].reqCache = "no-cache"
               /\ calls[c].pc = "fetch" => store[key(calls[c].url)] = cached
               /\ IF cached # NoRecord /\ cached.etag \notin {NULL, ""}
                  THEN h.ifNoneMatch = cached.etag
                  ELSE h.ifNoneMatch = NULL
               /\ IF cached # NoRecord /\ cached.lastModified \notin {NULL, ""}
                  THEN h.ifModifiedSince = cached.lastModified
                  ELSE h.ifModifiedSince = NULL

C15_Witness ==
    /\ \E c \in CallIds :
          /\ Requested(c) /\ calls[c].cached # NoRecord
          /\ calls[c].cached.etag = ""
          /\ calls[c].headers.ifNoneMatch = NULL
          /\ calls[c].headers.ifModifiedSince = "m1"
    /\ started = 2

\* C16 as stated: after any response other than a 304 that carries an ETag
\* or a Last-Modified header, the validators stored for the URL are those
\* of that response.
C16_Non304ReplacesValidators ==
    \A c \in CallIds :
        ( /\ Done(c) /\ Responded(c)
          /\ calls[c].res.status # 304
          /\ calls[c].res.etag # NULL \/ calls[c].res.lastModified # NULL )
        => /\ store[key(calls[c].url)] # NoRecord
           /\ store[key(calls[c].url)].etag = calls[c].res.etag
           /\ store[key(calls[c].url)].lastModified
                  = calls[c].res.lastModified

\* C16 amended: after a 2xx response that carries an ETag or a
\* Last-Modified header, the validators stored for the URL are those of
\* that response.
C16_SuccessReplacesValidators ==
    \A c \in CallIds :
        ( /\ Done(c) /\ Responded(c)
          /\ ResOk(calls[c].res.status)
          /\ calls[c].res.etag # NULL \/ calls[c].res.lastModified # NULL )
        => /\ store[key(calls[c].url)] # NoRecord
           /\ store[key(calls[c].url)].etag = calls[c].res.etag
           /\ store[key(calls[c].url)].lastModified
                  = calls[c].res.lastModified

C16_Witness ==
    \E c \in CallIds :
        /\ Done(c) /\ Responded(c) /\ calls[c].res.status = 200
        /\ calls[c].cached # NoRecord
        /\ calls[c].cached.etag = "e1" /\ calls[c].res.etag = "e2"
        /\ calls[c].cached.lastModified = "m1"
        /\ calls[c].res.lastModified = NULL
        /\ store[key(calls[c].url)].lastModified = NULL

\* the age of the record the call read, at the call's reading of the clock
AgeRead(c) == calls[c].now - calls[c].cached.fetchedAt

\* C29: whether a stored record is fresh is judged against the ttl stored
\* in the record, not against the ttl of the call that reads it; a record
\* as old as its stored ttl or older always leads to a request.
C29_StoredTtlDecides ==
    \A c \in CallIds :
        (calls[c].pc \notin {"idle", "get"} /\ calls[c].cached # NoRecord) =>
            /\ calls[c].branch = "hit" <=>
                  /\ AgeRead(c) < calls[c].cached.ttlMs
                  /\ ~calls[c].revalidate
            /\ AgeRead(c) >= calls[c].cached.ttlMs => calls[c].net = 1

C29_Witness ==
    \E c \in CallIds :
        /\ Done(c) /\ calls[c].branch = "hit"
        /\ calls[c].cached.ttlMs = 2 /\ calls[c].ttlMs = 1
        /\ AgeRead(c) = 1

\* a failed response (not 2xx, not 304) reaches a call that read a record
StaleServed(c) ==
    /\ calls[c].pc = "fetch" /\ calls[c].cached # NoRecord
    /\ Responded(c)' /\ ~ResOk(calls'[c].res.status)
    /\ calls'[c].res.status # 304

\* the call after a stale serve reads the record past the record's ttl
ReadsAfterStale(c) ==
    /\ calls[c].pc = "get" /\ calls'[c].pc # "get"
    /\ calls[c].after = "stale"
    /\ calls[c].now - store[key(calls[c].url)].fetchedAt
          >= store[key(calls[c].url)].ttlMs

\* C30: serving the stale body after a failed response leaves the stored
\* record exactly as it was (fetchedAt, ttl, validators and body), so the
\* next call that finds the entry expired issues a request again.
C30_StaleServeKeepsRecord ==
    [][\A c \in CallIds :
          /\ StaleServed(c) =>
                /\ calls'[c].pc = "done" /\ ~calls'[c].wrote
                /\ calls'[c].ret = Returned(calls[c].cached.body)
                /\ store' = store
                /\ store'[key(calls[c].url)] = calls[c].cached
          /\ ReadsAfterStale(c) =>
                /\ calls'[c].pc = "fetch"
                /\ calls'[c].net = calls[c].net + 1
                /\ calls'[c].headers =
                      CondHeaders(store[key(calls[c].url)])]_vars

C30_Witness ==
    \E c \in CallIds :
        /\ calls[c].after = "stale" /\ calls[c].pc = "fetch"
        /\ store[key(calls[c].url)] = calls[c].cached
        /\ AgeRead(c) >= calls[c].cached.ttlMs

----------------------------------------------------------------------------
(* Properties of overlapping calls, checked under ConcSpec                 *)

\* C12: from one state of the store to the next, the fetchedAt of the
\* record stored for a URL never decreases, whichever calls overlap.
C12_FetchedAtMonotone ==
    [][\A u \in Urls :
          (store[key(u)] # NoRecord /\ store'[key(u)] # NoRecord)
          => store'[key(u)].fetchedAt >= store[key(u)].fetchedAt]_vars

\* C13: whenever no write is pending, the body stored for a URL is the
\* body most recently retrieved (2xx) or validated (304) for it, whichever
\* calls overlap.
C13_BodyIsLatest ==
    (\A c \in CallIds : calls[c].pc # "set") =>
        \A u \in Urls :
            newest[u] # NULL =>
                /\ store[key(u)] # NoRecord
                /\ store[key(u)].body = newest[u]

----------------------------------------------------------------------------
(* Properties of fetchLatestGoesFrames, checked under FramesSpec           *)

FlfReturned == flf.pc = "done" /\ flf.kind = "return"
FrameOf(s) == {k \in DOMAIN flf.out : flf.out[k].sat = s}

\* the image of s resolved to a value
ImageResolved(s) == img[s].pc = "resolved" /\ img[s].result # NoImage

\* buildFrame was called for s and its propagation threw
PropagationFailed(s) ==
    /\ tle.fetched /\ ImageResolved(s) /\ tle.bySat[s] # NoTle
    /\ propagate(tle.bySat[s], DateOf(fnow)).position = NoPosition

\* s has an image and an element set that propagates
SatHealthy(s) ==
    /\ ImageResolved(s)
    /\ IF tle.fetched
       THEN /\ tle.bySat[s] # NoTle
            /\ propagate(tle.bySat[s], DateOf(fnow)).position # NoPosition
       ELSE ~useRealTle

\* C6: when image resolution or propagation throws for one satellite, the
\* call still returns, with the frame of the other satellite.
C6_SatellitesIndependent ==
    \A s \in Sats :
        ( /\ flf.pc = "done"
          /\ img[s].pc = "rejected" \/ PropagationFailed(s)
          /\ SatHealthy(OtherSat(s)) )
        => /\ flf.kind = "return"
           /\ FrameOf(OtherSat(s)) # {}

\* C7: directory-listing strategy: a directory fetch that throws, a listing
\* body whose read throws, or a rejected image load ends in the result
\* null; nothing is propagated to the caller of resolveLatestImage.
C7_DirFailuresYieldNull ==
    \A s \in Sats :
        (variant = "dir" /\ img[s].fault # "none")
        => /\ img[s].pc = "resolved"
           /\ img[s].result = NoImage

\* C8: candidate-list strategy: the candidates are fetched in list order,
\* every candidate before the last one fetched has failed, a success ends
\* the loop with that candidate's result, and the result is null exactly
\* when all candidates failed.
C8_CandidatesInOrder ==
    \A s \in Sats :
        variant = "cand" =>
            LET im == img[s]
                n == Len(im.fetched)
            IN /\ n <= Len(IMAGE_CANDIDATES(s))
               /\ \A k \in 1..n : im.fetched[k] = k
               /\ \A k \in 1..Len(im.outcomes) :
                      k < n => im.outcomes[k] # "ok"
               /\ im.pc = "resolved" =>
                     /\ Len(im.outcomes) = n
                     /\ im.result # NoImage =>
                           /\ im.outcomes[n] = "ok"
                           /\ im.result.url \in
                                 {IMAGE_CANDIDATES(s)[n]}
                                     \cup (ResponseUrls \ {NoUrl})
                     /\ im.result = NoImage <=>
                           /\ n = Len(IMAGE_CANDIDATES(s))
                           /\ \A k \in 1..n : im.outcomes[k] # "ok"

C8_Witness ==
    \E s \in Sats :
        /\ variant = "cand" /\ ImageResolved(s)
        /\ img[s].outcomes = <<"throw", "loadreject", "ok">>
        /\ img[OtherSat(s)].pc = "resolved"
        /\ img[OtherSat(s)].outcomes = <<"notok", "throw", "loadreject">>

\* the timestamp the frame of s has to carry: the resolved image's when that
\* is a valid instant, the current instant otherwise
ExpectedTimestamp(s) ==
    IF IsValidDate(img[s].result.timestamp) THEN img[s].result.timestamp
    ELSE DateOf(fnow)

\* C9: every returned frame carries a valid instant; a resolved image with
\* a null or invalid timestamp still gets its frame, stamped with the
\* current instant.
C9_FrameTimestampValid ==
    /\ FlfReturned =>
          \A k \in DOMAIN flf.out :
              /\ IsValidDate(flf.out[k].timestamp)
              /\ flf.out[k].timestamp = ExpectedTimestamp(flf.out[k].sat)
    /\ \A s \in Sats :
          ( /\ flf.pc = "done" /\ tle.fetched
            /\ \A t \in Sats : SatHealthy(t) \/ ~ImageResolved(t)
                                  \/ tle.bySat[t] = NoTle
            /\ SatHealthy(s) )
          => FlfReturned /\ FrameOf(s) # {}

C9_Witness ==
    /\ FlfReturned
    /\ \E k \in DOMAIN flf.out :
          /\ img[flf.out[k].sat].result.timestamp = NoDate
          /\ flf.out[k].timestamp = DateOf(fnow)
          /\ fnow > Now0

\* C10: the position of every returned frame is the propagation of that
\* satellite's element set at the instant in the frame's timestamp field.
C10_PositionAtFrameTimestamp ==
    FlfReturned =>
        \A k \in DOMAIN flf.out :
            LET f == flf.out[k]
                p == propagateToEcefMeters(tle.bySat[f.sat], f.timestamp)
            IN /\ ~p.threw
               /\ f.satEcef_m = p.value

C10_Witness ==
    /\ FlfReturned
    /\ \E k \in DOMAIN flf.out :
          /\ gstime(flf.out[k].timestamp) # gstime(DateOf(fnow))
          /\ flf.out[k].satEcef_m.y # 0

\* C17: when a candidate responds ok, the URL the image is then loaded from
\* is the response's final URL (res.url, the candidate itself when that is
\* empty), and the timestamp is the one parsed from that URL; when that is
\* null, the parsed Last-Modified header; when that is null too, the
\* current instant.
C17_TimestampPriority ==
    [][\A s \in Sats :
          (variant = "cand" /\ img[s].pc = "fetch" /\ img'[s].pc = "load")
          => LET finalUrl == IF img'[s].resUrl # NoUrl THEN img'[s].resUrl
                             ELSE IMAGE_CANDIDATES(s)[img[s].idx]
                 fromUrl == UrlTimestamp[finalUrl]
                 fromHeader == parseHttpDate(img'[s].lastMod)
             IN /\ img'[s].url = finalUrl
                /\ fromUrl # NoDate => img'[s].ts = fromUrl
                /\ (fromUrl = NoDate /\ fromHeader # NoDate)
                       => img'[s].ts = fromHeader
                /\ (fromUrl = NoDate /\ fromHeader = NoDate)
                       => img'[s].ts = DateOf(fnow')]_vars

C17_Witness ==
    /\ variant = "cand"
    /\ img["G19"].pc = "load" /\ img["G19"].resUrl = RedirectUrl
    /\ img["G19"].lastMod = HttpDateGood
    /\ img["G19"].ts = DateOf(DateUTC(2025, 7, 12, 23, 10, 0))
    /\ img["G18"].pc = "load" /\ img["G18"].resUrl = NoUrl
    /\ img["G18"].lastMod = HttpDateBad
    /\ img["G18"].ts = DateOf(Now0 + NowStep)

\* the file names of the listing of s that match the pattern of s
Matching(s) ==
    {k \in DOMAIN img[s].html :
        /\ Len(img[s].html[k].stamp) >= 11
        /\ img[s].html[k].sat = s
        /\ img[s].html[k].size = 1808}

\* the listing of s was read
ListingRead(s) ==
    img[s].resOk = "yes" /\ img[s].pc \in {"load", "resolved", "rejected"}
        /\ img[s].fault # "textThrow"

\* C18: directory-listing strategy: when file names of the listing match,
\* exactly one URL is loaded, the directory URL followed by a matching file
\* name whose stamp no other matching stamp exceeds lexicographically;
\* when the directory response is not ok or no file name matches, the
\* result is null and nothing is loaded.
C18_GreatestStampLoaded ==
    \A s \in Sats :
        variant = "dir" =>
            /\ (ListingRead(s) /\ Matching(s) # {}) =>
                   \E k \in Matching(s) :
                       /\ \A j \in Matching(s) :
                              ~LexLess(img[s].html[k].stamp,
                                       img[s].html[j].stamp)
                       /\ img[s].loads =
                              << GeocolorDir(s)
                                 \o GoesNFilename(img[s].html[k].stamp,
                                                  s, 1808) >>
            /\ (img[s].resOk = "no" \/ (ListingRead(s) /\ Matching(s) = {}))
                   => /\ img[s].pc = "resolved"
                      /\ img[s].result = NoImage
                      /\ img[s].loads = <<>>

C18_Witness ==
    /\ variant = "dir"
    /\ ImageResolved("G19")
    /\ Cardinality(Matching("G19")) = 3
    /\ img["G19"].loads =
           <<GeocolorDir("G19") \o GoesNFilename(StampLong, "G19", 1808)>>
    /\ img["G18"].pc = "resolved" /\ img["G18"].result = NoImage
    /\ img["G18"].resOk = "yes" /\ Len(img["G18"].html) = 2

\* fetchGoesTLEsBySatId has been called
ElementSetFetchStarted ==
    \/ flf.pc = "tle"
    \/ tle.fetched
    \/ flf.pc = "done" /\ flf.err = "element-set fetch failed"

\* C19: once fetchLatestGoesFrames has been entered and the image
\* resolutions are under way, the element-set fetch is under way too: it
\* does not wait for an image resolution to complete.
C19_TleFetchConcurrent ==
    flf.pc # "idle" => ElementSetFetchStarted

\* C11: once the element sets are in, the call returns its list, and a
\* satellite has a frame in it exactly when its image resolved to a value,
\* an element set was found for it and its propagation gave a position; a
\* satellite failing one of these is left out and the list is still returned.
C11_NoPartialFrame ==
    (flf.pc = "done" /\ tle.fetched) =>
        /\ flf.kind = "return"
        /\ \A s \in Sats :
               FrameOf(s) # {} <=> ( /\ ImageResolved(s)
                                     /\ tle.bySat[s] # NoTle
                                     /\ ~PropagationFailed(s) )

----------------------------------------------------------------------------
(* Properties of the pure helpers, checked under PureSpec                  *)

Applied(fn) == probe.fn = fn /\ probe.out # Pending

\* C20: parseTimestampFromUrl gives, for a URL of each of the three shapes
\* (YYYYMMDD-HHMM.ext, YYYYMMDDHHMMSS_suffix.ext, /YYYY/DDD/name-HHMMSS.ext),
\* the UTC instant of the date and time written in it, with seconds 0 when
\* the shape has none, and null for a string of none of the shapes.
C20_ParsesThreeShapes ==
    Applied("parseTimestampFromUrl") =>
        IF probe.shape = "none" THEN probe.out = NoDate
        ELSE probe.out = DateOf(DateUTC(probe.y, probe.mo - 1, probe.d,
                                        probe.hh, probe.mm, probe.ss))

C20_Witness ==
    /\ Applied("parseTimestampFromUrl")
    /\ probe.shape = "dayOfYear"
    /\ probe.arg = <<Host("https://x"), Chr("/"), Txt("y"), Chr("/"),
                     Dig(<<2, 0, 2, 5>>), Chr("/"), Dig(<<2, 2, 5>>),
                     Chr("/"), Txt("whatever"), Chr("-"),
                     Dig(<<2, 3, 5, 9, 5, 9>>), Chr("."), Txt("jpg")>>
    /\ probe.out = DateOf(DateUTC(2025, 7, 13, 23, 59, 59))

\* the days of the twelve months of year y
MonthLengths(y) ==
    <<31, IF IsLeapYear(y) THEN 29 ELSE 28, 31, 30, 31, 30, 31, 31, 30, 31,
      30, 31>>

\* the days of year y before its month m
RECURSIVE DaysBeforeMonth(_, _)
DaysBeforeMonth(y, m) ==
    IF m = 1 THEN 0
    ELSE DaysBeforeMonth(y, m - 1) + MonthLengths(y)[m - 1]

\* C21: for every day of the year 1..365 (366 in a leap year) the result
\* is the calendar date of that day: its year is the year given, and the
\* day of the year is the days of the months before its month plus its day
\* of the month, which lies within that month.
C21_DayOfYearDate ==
    Applied("dateFromDayOfYearUTC") =>
        /\ probe.out.y = probe.year
        /\ probe.out.m \in 1..12
        /\ probe.out.d \in 1..MonthLengths(probe.year)[probe.out.m]
        /\ DaysBeforeMonth(probe.year, probe.out.m) + probe.out.d = probe.doy

C21_Witness ==
    /\ Applied("dateFromDayOfYearUTC")
    /\ probe.year = 2024 /\ probe.doy = 60
    /\ probe.out = [y |-> 2024, m |-> 2, d |-> 29]

\* the position a rotation about Z by q quarter turns gives, in metres
QuarterTurned(p, q) ==
    CASE q = 0 -> [x |-> 1000 * p.x, y |-> 1000 * p.y, z |-> 1000 * p.z]
      [] q = 1 -> [x |-> -1000 * p.y, y |-> 1000 * p.x, z |-> 1000 * p.z]
      [] q = 2 -> [x |-> -1000 * p.x, y |-> -1000 * p.y, z |-> 1000 * p.z]
      [] OTHER -> [x |-> 1000 * p.y, y |-> -1000 * p.x, z |-> 1000 * p.z]

EciOf(pr) == propagate(twoline2satrec(pr.tle.line1, pr.tle.line2), pr.at).position

\* C22: propagateToEcefMeters returns the inertial position rotated about
\* the Z axis by the sidereal angle of the instant, in metres (kilometres
\* times 1000): (42164, 0, 0) km gives (42164000, 0, 0) m at angle 0 and
\* (0, 42164000, 0) m at a quarter turn, and z is only scaled.
C22_EcefRotatedMetres ==
    (Applied("propagateToEcefMeters") /\ EciOf(probe) # NoPosition) =>
        /\ probe.out.threw = FALSE
        /\ probe.out.value = QuarterTurned(EciOf(probe), gstime(probe.at))
        /\ probe.out.value.z = 1000 * EciOf(probe).z
        /\ (EciOf(probe) = [x |-> 42164, y |-> 0, z |-> 0] =>
               /\ gstime(probe.at) = 0 =>
                      probe.out.value = [x |-> 42164000, y |-> 0, z |-> 0]
               /\ gstime(probe.at) = 1 =>
                      probe.out.value = [x |-> 0, y |-> 42164000, z |-> 0])

C22_Witness ==
    /\ Applied("propagateToEcefMeters")
    /\ probe.tle = InclinedTle /\ IsValidDate(probe.at)
    /\ gstime(probe.at) = 1
    /\ probe.out = [threw |-> FALSE,
                    value |-> [x |-> -32299000, y |-> -27102000, z |-> 74000]]

\* C23: when the orbital model's response carries no usable position,
\* propagateToEcefMeters throws an error saying that there is no position
\* and returns no ECEF value.
C23_NoPositionThrows ==
    (Applied("propagateToEcefMeters") /\ EciOf(probe) = NoPosition) =>
        probe.out = [threw |-> TRUE, msg |-> "SGP4 returned no position"]

C23_Witness ==
    /\ Applied("propagateToEcefMeters")
    /\ probe.tle = DecayedTle /\ IsValidDate(probe.at)
    /\ probe.out.threw
ActiveSlots(pr) == 1..pr.numProjectors
Weighted(pr) == {k \in ActiveSlots(pr) : pr.c[k].a.n > 0}

RECURSIVE SumFrac(_, _)
SumFrac(f, S) ==
    IF S = {} THEN Frac(0, 1)
    ELSE LET k == CHOOSE x \in S : TRUE
         IN FracAdd(f[k], SumFrac(f, S \ {k}))

TotalWeight(pr) == SumFrac([k \in 1..MAX_PROJECTORS |-> pr.c[k].a],
                           ActiveSlots(pr))

\* channel i of sum(c_k * w_k) over the active sources
WeightedSum(pr, i) ==
    SumFrac([k \in 1..MAX_PROJECTORS |-> FracMul(pr.c[k].rgb[i], pr.c[k].a)],
            ActiveSlots(pr))

BaseOf(pr) == [i \in 1..3 |-> FracMul(baseColor[i], pr.diffuse)]

\* C25: the fragment's colour is the base-shaded colour when the total
\* weight of the active sources is zero, and otherwise
\* mix(base, sum(c*w)/sum(w), clamp(sum(w), 0, 1)); two fully covering
\* sources give the average of their colours, and every channel lies
\* between the smallest and the largest of the base and the colours of
\* the sources that carry weight.
C25_WeightedAverage ==
    Applied("main") =>
        LET W == TotalWeight(probe)
            t == Clamp01(W)
            base == BaseOf(probe)
        IN /\ W.n = 0 => probe.out.rgb = base
           /\ W.n > 0 =>
                \A i \in 1..3 :
                    /\ FracMul(probe.out.rgb[i], W) =
                          FracAdd(FracMul(FracMul(base[i], OneMinus(t)), W),
                                  FracMul(WeightedSum(probe, i), t))
                    /\ \E k \in Weighted(probe) \cup {0} :
                          FracLeq(IF k = 0 THEN base[i]
                                  ELSE probe.c[k].rgb[i], probe.out.rgb[i])
                    /\ \E k \in Weighted(probe) \cup {0} :
                          FracLeq(probe.out.rgb[i],
                                  IF k = 0 THEN base[i]
                                  ELSE probe.c[k].rgb[i])
           /\ \A j, k \in ActiveSlots(probe) :
                (/\ j # k /\ Weighted(probe) = {j, k}
                 /\ probe.c[j].a = Frac(1, 1) /\ probe.c[k].a = Frac(1, 1)) =>
                    \A i \in 1..3 :
                        probe.out.rgb[i] =
                            FracMul(FracAdd(probe.c[j].rgb[i],
                                            probe.c[k].rgb[i]), Frac(1, 2))
           /\ probe.out.a = Frac(1, 1)

C25_Witness ==
    /\ Applied("main")
    /\ probe.numProjectors = 2
    /\ probe.c[1] = [rgb |-> White, a |-> Frac(1, 1)]
    /\ probe.c[2] = [rgb |-> Black, a |-> Frac(1, 1)]
    /\ probe.out.rgb = <<Frac(1, 2), Frac(1, 2), Frac(1, 2)>>
\* the satellite a name line stands for
AliasSat(line) ==
    IF line \in {"GOES 19", "GOES-19", "GOES19", "goes 19", "GOES U"}
    THEN "G19"
    ELSE IF line \in {"GOES 18", "GOES-18", "GOES18", "goes 18", "GOES T"}
    THEN "G18"
    ELSE NoSat

\* the complete groups of three lines whose first line names satellite s
GroupsOf(lines, s) ==
    {g \in 0..((Len(lines) \div 3) - 1) : AliasSat(lines[3 * g + 1]) = s}

\* C27: in real mode fetchGoesTLEsBySatId takes the text in groups of three
\* non-empty lines; a satellite's element set is the two lines after the
\* first name line that matches its aliases without regard to case
\* (GOES 19, GOES-19, GOES19, GOES U; GOES 18, GOES-18, GOES18, GOES T); a
\* later group never replaces it, and a satellite no name line matches
\* stays null.
C27_FirstAliasGroupWins ==
    Applied("fetchGoesTLEsBySatId") =>
        \A s \in Sats :
            LET G == GroupsOf(probe.clean, s)
            IN IF G = {} THEN probe.out[s] = NoTle
               ELSE LET g == CHOOSE x \in G : \A y \in G : x <= y
                    IN probe.out[s] = [line1 |-> probe.clean[3 * g + 2],
                                       line2 |-> probe.clean[3 * g + 3]]

C27_Witness ==
    /\ Applied("fetchGoesTLEsBySatId")
    /\ probe.rawLines =
          Interleaved(GroupLines(<<"goes 19", "NOAA 19", "GOES U">>))
    /\ probe.out = [G19 |-> RealTle19, G18 |-> NoTle]
----------------------------------------------------------------------------
(* Properties of the page, checked under AppSpec                           *)

\* the source the shader reads for a projector of the list
SourceOf(p) ==
    [tex |-> p.texture, cameraMatrix |-> p.camera,
     projectorCameraPosition |-> p.camera, cameraProjection |-> p.camera]

\* C26: in every animation step numProjectors is the smaller of the number
\* of loaded satellites and 4, slot i < numProjectors holds the texture,
\* world matrix, position and projection matrix of satellites[i], and the
\* frame is composited from these slots only.
C26_ProjectorSlots ==
    [][rendered' # rendered =>
          LET n == IF Len(satellites) < 4 THEN Len(satellites) ELSE 4
          IN /\ uniforms'.numProjectors = n
             /\ uniforms'.numProjectors <= 4
             /\ \A i \in 0..(n - 1) :
                   /\ uniforms'.tex[i] = satellites[i + 1].texture
                   /\ uniforms'.cameraMatrix[i] = satellites[i + 1].camera
                   /\ uniforms'.projectorCameraPosition[i] =
                         satellites[i + 1].camera
                   /\ uniforms'.cameraProjection[i] =
                         satellites[i + 1].camera
             /\ rendered'.sources =
                   [j \in 1..n |-> SourceOf(satellites[j])]]_vars

C26_Witness ==
    /\ Len(satellites) > 4
    /\ uniforms.numProjectors = 4
    /\ rendered.sources = [j \in 1..4 |-> SourceOf(satellites[j])]

\* C28: after any sequence of loadSatellites invocations, a click during
\* a load in flight included, the satellites list and the widget list hold
\* at most one entry per satellite id.
C28_OneEntryPerSatellite ==
    /\ \A i, j \in DOMAIN satellites :
          satellites[i].sat = satellites[j].sat => i = j
    /\ \A i, j \in DOMAIN satelliteImageWidgets :
          satelliteImageWidgets[i].sat = satelliteImageWidgets[j].sat => i = j
====
